---- MODULE Spec2Model ----
(***************************************************************************)
(* Model of the audio fluid simulation. The worker pool                    *)
(* (src/js/workers/WorkerPool.js): the pool's fields, the worker script    *)
(* seen from the main thread, the promise handles returned to callers and  *)
(* the batch operations built on Promise.all. The adaptive quality         *)
(* controller (src/js/optimization/OptimizationManager.js), the            *)
(* performance monitor (src/js/utils/PerformanceMonitor.js) and the        *)
(* application that drives them frame by frame (src/js/main.js).           *)
(*                                                                         *)
(* One action is one turn of the main thread's synchronous code: a call    *)
(* of the public API, the continuation of an `await`, or a worker event    *)
(* handler together with the promise reactions it triggers.                *)
(***************************************************************************)
EXTENDS Integers, Sequences, FiniteSets, TLC

(***************************************************************************)
(* Bounds of the model.                                                    *)
(***************************************************************************)
\* largest maxWorkers argument passed to the constructor
MaxRequested == 2
\* largest number of executeTask and initialize calls in a run, a batch
\* operation over no particles counting as one call
MaxHandles == 3
\* largest length of the caller's particle array: one more than the workers,
\* so that slices of different lengths occur
MaxParticles == MaxRequested + 1
\* largest number of Worker objects created in a run: enough for a failed
\* initialize() followed by a successful one
MaxWorkerObjects == MaxRequested + 1

(***************************************************************************)
(* Program constants.                                                      *)
(***************************************************************************)
\* Math.min(maxWorkers, 8)
WorkerCap == 8

VARIABLES
    maxWorkers,        \* this.maxWorkers
    workers,           \* this.workers: sequence of Worker objects (identities 1, 2, ...)
    availableWorkers,  \* this.availableWorkers
    taskQueue,         \* this.taskQueue: sequence of task records
    isInitialized,     \* this.isInitialized
    nextWorker,        \* number of Worker objects created so far
    inbox,             \* inbox[w]: messages posted to worker w and not yet answered
    deferred,          \* executeTask calls suspended at `await this.initialize()`
    handles,           \* the promises returned by the API calls, in call order
    callerParticles,   \* the caller's particle array, handed to every batch operation
    operation,         \* the batch operation the caller uses in this run
    callBudget,        \* the number of calls the caller makes in this run
    batches            \* the batch operations called, in call order

poolVars == <<maxWorkers, workers, availableWorkers, taskQueue, isInitialized,
              nextWorker, inbox, deferred, handles, callerParticles, operation,
              callBudget, batches>>

(***************************************************************************)
(* Helpers.                                                                *)
(***************************************************************************)
Min(a, b) == IF a <= b THEN a ELSE b

Range(s) == {s[i] : i \in 1..Len(s)}

\* Math.ceil(a / b) for a >= 0, b > 0
Ceil(a, b) == (a + b - 1) \div b

\* a slice that takes the element at `to` as well
SliceInclusive(s, from, to) == SubSeq(s, from + 1, Min(to + 1, Len(s)))

\* Array.prototype.slice(from, to) with 0-based from, exclusive to, clamped
Slice(s, from, to) == SubSeq(s, from + 1, Min(to, Len(s)))

\* Array.prototype.includes
Includes(s, x) == \E i \in 1..Len(s) : s[i] = x

\* a sequence without its element at index i (splice(i, 1))
RemoveAt(s, i) == SubSeq(s, 1, i - 1) \o SubSeq(s, i + 1, Len(s))

RECURSIVE Flat(_)
\* Array.prototype.flat() of a sequence of sequences
Flat(ss) == IF ss = <<>> THEN <<>> ELSE Head(ss) \o Flat(Tail(ss))

(***************************************************************************)
(* Values exchanged with the workers. A particle is an identity 1..N, a    *)
(* force component an integer; results are tagged records so that the      *)
(* output for one particle is told apart from the output for another.      *)
(***************************************************************************)
\* the value of an absent float (`|| 0`, a fresh Float32Array cell)
ZeroForce == [k |-> "force", v |-> <<0, 0>>]

\* forces[i] || 0 on a 1-based sequence
ForceAt(forces, i) == IF i \in 1..Len(forces) THEN forces[i] ELSE 0

\* worker script: updateParticlesBatch
updateParticlesBatch(data) ==
    [i \in 1..Len(data.particles) |->
        [k |-> "particle",
         v |-> <<data.particles[i],
                 ForceAt(data.forces, 2 * i - 1),
                 ForceAt(data.forces, 2 * i)>>]]

\* worker script: calculateForcesBatch (a Float32Array of 2 floats per particle)
calculateForcesBatch(data) ==
    [i \in 1..(2 * Len(data.particles)) |->
        [k |-> "force", v |-> <<data.particles[(i + 1) \div 2], 2 - (i % 2)>>]]

\* worker script: calculateSpatialHash (one hash object for the whole input)
calculateSpatialHash(data) ==
    << [k |-> "hash", v |-> data.particles] >>

\* worker script: self.onmessage
WorkerResult(type, data) ==
    CASE type = "updateParticles" -> updateParticlesBatch(data)
      [] type = "calculateForces" -> calculateForcesBatch(data)
      [] type = "spatialHash"     -> calculateSpatialHash(data)

InitError == << [k |-> "InitError", v |-> <<>>] >>
WorkerError == << [k |-> "WorkerError", v |-> <<>>] >>

(***************************************************************************)
(* The pool as a record, so that the methods are operators from pool       *)
(* states to pool states.                                                  *)
(***************************************************************************)
Pool == [workers |-> workers, availableWorkers |-> availableWorkers,
         taskQueue |-> taskQueue, isInitialized |-> isInitialized,
         nextWorker |-> nextWorker, inbox |-> inbox, deferred |-> deferred,
         handles |-> handles]

\* WorkerPool.constructor
Constructor(requested) ==
    /\ maxWorkers = Min(requested, WorkerCap)
    /\ workers = <<>>
    /\ availableWorkers = <<>>
    /\ taskQueue = <<>>
    /\ isInitialized = FALSE

\* WorkerPool.initialize, from a pool that is not initialized: `created`
\* workers are constructed; the constructor of the next one throws when
\* created < maxWorkers.
initialize(p, created) ==
    LET new == [i \in 1..created |-> p.nextWorker + i]
    IN  IF p.isInitialized THEN p ELSE
        [p EXCEPT !.workers = @ \o new,
                  !.availableWorkers = @ \o new,
                  !.nextWorker = @ + created,
                  !.inbox = @ \o [i \in 1..created |-> <<>>],
                  !.isInitialized = (created = maxWorkers)]

\* the outcomes of initialize() the bound on Worker objects allows
InitOutcomes(p) == {c \in 0..maxWorkers : p.nextWorker + c <= MaxWorkerObjects}

\* processNextTask taking the newest task without a worker (findLast for find)
processNextTaskNewest(p) ==
    IF Len(p.taskQueue) = 0 \/ Len(p.availableWorkers) = 0 THEN p
    ELSE
        LET worker == p.availableWorkers[Len(p.availableWorkers)]
            unassigned == {i \in 1..Len(p.taskQueue) : p.taskQueue[i].worker = 0}
        IN  IF unassigned # {}
            THEN LET i == CHOOSE j \in unassigned : \A l \in unassigned : j >= l
                     task == p.taskQueue[i]
                 IN  [p EXCEPT
                        !.availableWorkers = SubSeq(@, 1, Len(@) - 1),
                        !.taskQueue[i].worker = worker,
                        !.inbox[worker] = Append(@, [type |-> task.type,
                                                     data |-> task.data,
                                                     taskId |-> task.id,
                                                     handle |-> task.handle])]
            ELSE p

\* WorkerPool.processNextTask
processNextTask(p) ==
    IF Len(p.taskQueue) = 0 \/ Len(p.availableWorkers) = 0 THEN p
    ELSE
        LET worker == p.availableWorkers[Len(p.availableWorkers)]
            unassigned == {i \in 1..Len(p.taskQueue) : p.taskQueue[i].worker = 0}
        IN  IF unassigned # {}
            THEN LET i == CHOOSE j \in unassigned : \A l \in unassigned : j <= l
                     task == p.taskQueue[i]
                 IN  [p EXCEPT
                        !.availableWorkers = SubSeq(@, 1, Len(@) - 1),
                        !.taskQueue[i].worker = worker,
                        !.inbox[worker] = Append(@, [type |-> task.type,
                                                     data |-> task.data,
                                                     taskId |-> task.id,
                                                     handle |-> task.handle])]
            ELSE p

\* the ids held by the pending tasks and by the messages in flight
UsedIds(p) ==
    {p.taskQueue[i].id : i \in 1..Len(p.taskQueue)}
    \cup UNION {{p.inbox[w][i].taskId : i \in 1..Len(p.inbox[w])} : w \in 1..Len(p.inbox)}

\* WorkerPool.generateTaskId: a random string followed by the clock reading.
\* Ids are only ever compared for equality, so a new id is either equal to
\* one still held by a task or a message, or different from all of them.
generateTaskId(p) ==
    UsedIds(p) \cup {CHOOSE n \in 1..(Cardinality(UsedIds(p)) + 1) : n \notin UsedIds(p)}

\* the body of `new Promise(...)` in executeTask: build the task, enqueue, dispatch
Enqueue(p, type, data, h, taskId) ==
    processNextTask(
        [p EXCEPT !.taskQueue = Append(@, [id |-> taskId, type |-> type, data |-> data,
                                           handle |-> h, worker |-> 0])])

\* the continuation of executeTask after `await this.initialize()`
ResumeOutcomes(p) ==
    LET c == Head(p.deferred)
        q == [p EXCEPT !.deferred = Tail(@)]
    IN  {Enqueue(q, c.type, c.data, c.handle, id) : id \in generateTaskId(q)}

\* WorkerPool.executeTask up to its first suspension: the set of pool states
\* one call can leave behind
executeTaskOutcomes(p, type, data) ==
    LET h == Len(p.handles) + 1
        pending == [status |-> "pending", value |-> <<>>]
    IN  IF ~p.isInitialized
        THEN { IF c = maxWorkers
               THEN [initialize(p, c) EXCEPT
                        !.handles = Append(@, pending),
                        !.deferred = Append(@, [type |-> type, data |-> data, handle |-> h])]
               ELSE [initialize(p, c) EXCEPT
                        !.handles = Append(@, [status |-> "rejected", value |-> InitError])]
               : c \in InitOutcomes(p) }
        ELSE { Enqueue([p EXCEPT !.handles = Append(@, pending)], type, data, h, id)
               : id \in generateTaskId(p) }

\* WorkerPool.handleWorkerMessage(worker, {result, taskId})
handleWorkerMessage(p, worker, result, taskId) ==
    LET found == {i \in 1..Len(p.taskQueue) : p.taskQueue[i].id = taskId}
        q == IF found = {} THEN p
             ELSE LET taskIndex == CHOOSE i \in found : \A j \in found : i <= j
                      task == p.taskQueue[taskIndex]
                  IN  [p EXCEPT !.taskQueue = RemoveAt(@, taskIndex),
                                !.handles[task.handle] =
                                    IF @.status = "pending"
                                    THEN [@ EXCEPT !.status = "resolved", !.value = result]
                                    ELSE @]
        r == IF Includes(q.availableWorkers, worker) THEN q
             ELSE [q EXCEPT !.availableWorkers = Append(@, worker)]
    IN  processNextTask(r)

\* WorkerPool.handleWorkerError(worker, error)
handleWorkerError(p, worker) ==
    LET failed == {p.taskQueue[i].handle :
                       i \in {j \in 1..Len(p.taskQueue) : p.taskQueue[j].worker = worker}}
        q == [p EXCEPT
                !.handles = [h \in 1..Len(@) |->
                                IF h \in failed /\ @[h].status = "pending"
                                THEN [@[h] EXCEPT !.status = "rejected", !.value = WorkerError]
                                ELSE @[h]],
                !.taskQueue = SelectSeq(@, LAMBDA task : task.worker # worker)]
    IN  IF Includes(q.availableWorkers, worker) THEN q
        ELSE [q EXCEPT !.availableWorkers = Append(@, worker)]

\* a terminate that stops the workers and keeps the queued tasks
terminateKeepingQueue(p) ==
    [p EXCEPT !.workers = <<>>,
              !.availableWorkers = <<>>,
              !.isInitialized = FALSE,
              !.inbox = [w \in 1..Len(@) |-> <<>>]]

\* WorkerPool.terminate: the workers are stopped, so their messages are lost
terminate(p) ==
    [p EXCEPT !.workers = <<>>,
              !.availableWorkers = <<>>,
              !.taskQueue = <<>>,
              !.isInitialized = FALSE,
              !.inbox = [w \in 1..Len(@) |-> <<>>]]

(***************************************************************************)
(* Batch operations.                                                       *)
(***************************************************************************)
RECURSIVE RunCalls(_, _, _)
\* a run of executeTask calls made in one turn (the slice loop)
RunCalls(p, type, datas) ==
    IF datas = <<>> THEN {p}
    ELSE UNION {RunCalls(q, type, Tail(datas)) : q \in executeTaskOutcomes(p, type, Head(datas))}

\* the slice starts i = 0, batchSize, 2 batchSize, ... below n
SliceStarts(n, batchSize) ==
    IF n = 0 THEN <<>> ELSE [j \in 1..Ceil(n, batchSize) |-> (j - 1) * batchSize]

\* the payloads of the slice loop of updateParticles
updateParticlesSlices(particles, forces) ==
    LET batchSize == Ceil(Len(particles), maxWorkers)
        starts == SliceStarts(Len(particles), batchSize)
    IN  [j \in 1..Len(starts) |->
            [particles |-> Slice(particles, starts[j], starts[j] + batchSize),
             forces |-> Slice(forces, starts[j] * 2, (starts[j] + batchSize) * 2)]]

\* the payloads of the slice loop of calculateForces
calculateForcesSlices(particles) ==
    LET batchSize == Ceil(Len(particles), maxWorkers)
        starts == SliceStarts(Len(particles), batchSize)
    IN  [j \in 1..Len(starts) |->
            [particles |-> Slice(particles, starts[j], starts[j] + batchSize),
             forces |-> <<>>]]

\* a join released by the first slice that resolves (Promise.any for Promise.all)
PromiseAllFirst(ps) ==
    LET rejected == {i \in 1..Len(ps) : ps[i].status = "rejected"}
    IN  IF rejected # {}
        THEN [status |-> "rejected",
              value |-> ps[CHOOSE i \in rejected : \A j \in rejected : i <= j].value]
        ELSE IF ps = <<>> \/ \E i \in 1..Len(ps) : ps[i].status = "resolved"
        THEN [status |-> "resolved", value |-> [i \in 1..Len(ps) |-> ps[i].value]]
        ELSE [status |-> "pending", value |-> <<>>]

\* a join that keeps the slices that succeeded (Promise.allSettled for Promise.all)
PromiseAllSettled(ps) ==
    IF \A i \in 1..Len(ps) : ps[i].status # "pending"
    THEN [status |-> "resolved",
          value |-> [i \in 1..Len(ps) |->
                        IF ps[i].status = "resolved" THEN ps[i].value ELSE <<>>]]
    ELSE [status |-> "pending", value |-> <<>>]

\* Promise.all over the promises ps
PromiseAll(ps) ==
    LET rejected == {i \in 1..Len(ps) : ps[i].status = "rejected"}
    IN  IF rejected # {}
        THEN [status |-> "rejected",
              value |-> ps[CHOOSE i \in rejected : \A j \in rejected : i <= j].value]
        ELSE IF \A i \in 1..Len(ps) : ps[i].status = "resolved"
        THEN [status |-> "resolved", value |-> [i \in 1..Len(ps) |-> ps[i].value]]
        ELSE [status |-> "pending", value |-> <<>>]

\* calculateForces after the join: totalForces.set(batchForces, offset) per slice;
\* set() throws a RangeError when the slice does not fit
CombineForces(results, total) ==
    LET all == Flat(results)
    IN  IF Len(all) > total
        THEN [status |-> "rejected", value |-> << [k |-> "RangeError", v |-> <<>>] >>]
        ELSE [status |-> "resolved",
              value |-> [i \in 1..total |-> IF i <= Len(all) THEN all[i] ELSE ZeroForce]]

\* what the promise of batch operation b is, given the promises of its slices
Settle(b, hs) ==
    IF b.status # "pending" THEN b
    ELSE
        LET all == PromiseAll([i \in 1..Len(b.slices) |-> hs[b.slices[i]]])
            out == CASE b.kind = "spatialHash" ->
                            [status |-> hs[b.slices[1]].status, value |-> hs[b.slices[1]].value]
                     [] all.status # "resolved" -> all
                     [] b.kind = "updateParticles" ->
                            [status |-> "resolved", value |-> Flat(all.value)]
                     [] b.kind = "calculateForces" ->
                            CombineForces(all.value, Len(callerParticles) * 2)
        IN  [b EXCEPT !.status = out.status, !.result = out.value]

SettleAll(bs, hs) == [i \in 1..Len(bs) |-> Settle(bs[i], hs)]

(***************************************************************************)
(* Inputs.                                                                 *)
(***************************************************************************)
\* a particle array of length n: particle i is identity i
Particles(n) == [i \in 1..n |-> i]

\* a forces array for n particles: 2 floats per particle, all different
Forces(n) == [i \in 1..(2 * n) |-> 10 + i]

(***************************************************************************)
(* The adaptive quality controller (OptimizationManager), the performance *)
(* monitor that feeds it and the application that wires them to the        *)
(* simulation (OptimizedFluidApp in src/js/main.js).                       *)
(*                                                                         *)
(* Numbers the program keeps as floats are kept exactly as integers:       *)
(* resolutions in hundredths (0.75 is 75), FPS values in units of 1/FpsUnit*)
(* frame per second, times in milliseconds.                                *)
(***************************************************************************)
\* OptimizationManager.maxHistoryLength
maxHistoryLength == 60
\* OptimizationManager.optimizationThresholds.fpsMin
fpsMin == 45
\* OptimizationManager.optimizationThresholds.fpsMax
fpsMax == 120
\* PerformanceMonitor.maxFrameHistory
maxFrameHistory == 60
\* PerformanceMonitor.recordFrame: the FPS value is renewed after this many ms
FpsWindowMs == 1000
\* the denominator of the FPS values: the windows of the model last 1000 or
\* 1500 ms, so that frameCount * 1000 / deltaTime is a number of thirds
FpsUnit == 3

\* calls of adjustQuality whose FPS argument the caller chooses freely; the
\* calls after them repeat the last argument
MaxVaried == 3
\* frames rendered in a run of the application
MaxFrames == 4
\* samples recorded in a run of the controller: enough to overflow the window
MaxSamples == maxHistoryLength + 2

VARIABLES
    adaptiveQuality,      \* OptimizationManager.adaptiveQuality
    qualitySettings,      \* OptimizationManager.qualitySettings
    performanceHistory,   \* OptimizationManager.performanceHistory
    currentQualityLevel,  \* OptimizationManager.currentQualityLevel
    isLowEnd,             \* OptimizationManager.deviceCapabilities.isLowEnd
    dispatched,           \* the qualityChanged events dispatched by the latest step
    recorded,             \* every FPS sample pushed to performanceHistory, in order
    fluidSim,             \* OptimizedFluidApp.fluidSim: params and particles.length
    performanceMonitor,   \* OptimizedFluidApp.performanceMonitor
    targetFPS,            \* OptimizedFluidApp.targetFPS
    now,                  \* performance.now() at the latest rendered frame
    sampledSinceRenewal,  \* samples pushed since the monitor last renewed its FPS value
    renderLoop            \* the position of the renderLoop callback on the main thread

appVars == <<adaptiveQuality, qualitySettings, performanceHistory, currentQualityLevel,
             isLowEnd, dispatched, recorded, fluidSim, performanceMonitor, targetFPS, now,
             sampledSinceRenewal, renderLoop>>


\* n frames per second as an FPS value
Fps(n) == n * FpsUnit

RECURSIVE Sum(_)
\* reduce((a, b) => a + b, 0)
Sum(s) == IF s = <<>> THEN 0 ELSE Head(s) + Sum(Tail(s))

\* indexOf on a 1-based sequence, 0 when absent (-1 in the source)
IndexOf(s, x) ==
    IF \E i \in 1..Len(s) : s[i] = x
    THEN CHOOSE i \in 1..Len(s) : s[i] = x /\ \A j \in 1..(i - 1) : s[j] # x
    ELSE 0

\* object spread { ...a, ...b }
Spread(a, b) == b @@ a

\* the controller as a record, with the events it dispatches on window
Manager == [adaptiveQuality |-> adaptiveQuality,
            qualitySettings |-> qualitySettings,
            performanceHistory |-> performanceHistory,
            currentQualityLevel |-> currentQualityLevel,
            isLowEnd |-> isLowEnd,
            dispatched |-> <<>>]

\* OptimizationManager.constructor
NewOptimizationManager(lowEnd) ==
    [adaptiveQuality |-> TRUE,
     qualitySettings |-> [particles |-> 1000, resolution |-> 100, effects |-> TRUE,
                          shadows |-> TRUE, antialiasing |-> TRUE],
     performanceHistory |-> <<>>,
     currentQualityLevel |-> "medium",
     isLowEnd |-> lowEnd,
     dispatched |-> <<>>]

\* OptimizationManager.getFluidParams
getFluidParams(m) ==
    [particleCount |-> IF m.isLowEnd THEN Min(m.qualitySettings.particles, 500)
                       ELSE m.qualitySettings.particles,
     resolution |-> IF m.isLowEnd THEN Min(m.qualitySettings.resolution, 75)
                    ELSE m.qualitySettings.resolution]

\* the table `settings` of applyQualitySettings
tierSettings(quality) ==
    CASE quality = "low" ->
            [particles |-> 300, resolution |-> 50, effects |-> FALSE,
             shadows |-> FALSE, antialiasing |-> FALSE]
      [] quality = "medium" ->
            [particles |-> 800, resolution |-> 75, effects |-> TRUE,
             shadows |-> FALSE, antialiasing |-> FALSE]
      [] quality = "high" ->
            [particles |-> 1500, resolution |-> 100, effects |-> TRUE,
             shadows |-> TRUE, antialiasing |-> FALSE]
      [] quality = "ultra" ->
            [particles |-> 3000, resolution |-> 100, effects |-> TRUE,
             shadows |-> TRUE, antialiasing |-> TRUE]

\* an applyQualitySettings that dispatches no event
applyQualitySettingsSilently(m, quality) ==
    [m EXCEPT !.qualitySettings = Spread(@, tierSettings(quality))]

\* OptimizationManager.applyQualitySettings
applyQualitySettings(m, quality) ==
    LET merged == Spread(m.qualitySettings, tierSettings(quality))
    IN  [m EXCEPT !.qualitySettings = merged,
                  !.dispatched = Append(@, [type |-> "qualityChanged",
                                            quality |-> quality,
                                            settings |-> merged])]

\* a decreaseQuality that goes to the bottom of the ladder at once
decreaseQualityToLowest(m) ==
    LET qualityLevels == <<"ultra", "high", "medium", "low">>
        currentIndex == IndexOf(qualityLevels, m.currentQualityLevel)
    IN  IF currentIndex < Len(qualityLevels)
        THEN applyQualitySettings(
                [m EXCEPT !.currentQualityLevel = qualityLevels[Len(qualityLevels)]],
                qualityLevels[Len(qualityLevels)])
        ELSE m

\* OptimizationManager.decreaseQuality
decreaseQuality(m) ==
    LET qualityLevels == <<"ultra", "high", "medium", "low">>
        currentIndex == IndexOf(qualityLevels, m.currentQualityLevel)
    IN  IF currentIndex < Len(qualityLevels)
        THEN applyQualitySettings(
                [m EXCEPT !.currentQualityLevel = qualityLevels[currentIndex + 1]],
                qualityLevels[currentIndex + 1])
        ELSE m

\* OptimizationManager.increaseQuality
increaseQuality(m) ==
    LET qualityLevels == <<"low", "medium", "high", "ultra">>
        currentIndex == IndexOf(qualityLevels, m.currentQualityLevel)
    IN  IF currentIndex < Len(qualityLevels)
        THEN applyQualitySettings(
                [m EXCEPT !.currentQualityLevel = qualityLevels[currentIndex + 1]],
                qualityLevels[currentIndex + 1])
        ELSE m

\* a window that drops its newest sample when it is full
pushSampleDropNewest(history, currentFPS) ==
    IF Len(history) + 1 > maxHistoryLength THEN history ELSE Append(history, currentFPS)

\* adjustQuality, the window: push, then shift when longer than maxHistoryLength
pushSample(history, currentFPS) ==
    LET pushed == Append(history, currentFPS)
    IN  IF Len(pushed) > maxHistoryLength THEN Tail(pushed) ELSE pushed

\* avgFPS < fpsMin, for the average of a window that is not empty
AverageBelowMin(history) == Sum(history) < Fps(fpsMin) * Len(history)

\* avgFPS > fpsMax
AverageAboveMax(history) == Sum(history) > Fps(fpsMax) * Len(history)

\* an adjustQuality whose thresholds include their bounds (<= and >=)
adjustQualityInclusive(m, currentFPS, target) ==
    IF ~m.adaptiveQuality THEN m
    ELSE
        LET history == pushSample(m.performanceHistory, currentFPS)
            q == [m EXCEPT !.performanceHistory = history]
        IN  IF Sum(history) <= Fps(fpsMin) * Len(history) THEN decreaseQuality(q)
            ELSE IF Sum(history) >= Fps(fpsMax) * Len(history)
                    /\ q.currentQualityLevel # "ultra"
            THEN increaseQuality(q)
            ELSE q

\* OptimizationManager.adjustQuality(currentFPS, targetFPS): the second
\* argument is not read
adjustQuality(m, currentFPS, target) ==
    IF ~m.adaptiveQuality THEN m
    ELSE
        LET history == pushSample(m.performanceHistory, currentFPS)
            q == [m EXCEPT !.performanceHistory = history]
        IN  IF AverageBelowMin(history) THEN decreaseQuality(q)
            ELSE IF AverageAboveMax(history) /\ q.currentQualityLevel # "ultra"
            THEN increaseQuality(q)
            ELSE q

\* OptimizationManager.updateQualitySettings
updateQualitySettings(m, changes) ==
    [m EXCEPT !.qualitySettings = Spread(@, changes)]

\* OptimizationManager.setAdaptiveQuality
setAdaptiveQuality(m, enabled) == [m EXCEPT !.adaptiveQuality = enabled]

\* FluidSimulation.constructor: the params given (`...params` overrides the
\* defaults of the keys it carries) and the particle array built from them
NewFluidSimulation(p) ==
    [particleCount |-> p.particleCount,
     resolution |-> p.resolution,
     particles |-> p.particleCount]

\* FluidSimulation.setParticleCount: the store is rebuilt when the count changes
setParticleCount(sim, count) ==
    IF count # sim.particleCount
    THEN [sim EXCEPT !.particleCount = count, !.particles = count]
    ELSE sim

\* FluidSimulation.setResolution
setResolution(sim, resolution) == [sim EXCEPT !.resolution = resolution]

\* PerformanceMonitor.constructor followed by start() at time 0
NewPerformanceMonitor ==
    [isRunning |-> TRUE, frameCount |-> 0, lastTime |-> 0, fps |-> 0,
     frameTime |-> 0, frameTimes |-> <<>>]

\* a recordFrame that renews the FPS value at every frame
recordFrameEveryFrame(mon, currentTime) ==
    IF ~mon.isRunning THEN mon
    ELSE
        LET frameCount == mon.frameCount + 1
            deltaTime == currentTime - mon.lastTime
            pushed == Append(mon.frameTimes, deltaTime)
        IN  [mon EXCEPT
                !.fps = (frameCount * 1000 * FpsUnit) \div deltaTime,
                !.frameCount = 0,
                !.lastTime = currentTime,
                !.frameTime = deltaTime,
                !.frameTimes = IF Len(pushed) > maxFrameHistory THEN Tail(pushed) ELSE pushed]

\* PerformanceMonitor.recordFrame; no callback is registered, so the
\* threshold checks have no effect
recordFrame(mon, currentTime) ==
    IF ~mon.isRunning THEN mon
    ELSE
        LET frameCount == mon.frameCount + 1
            deltaTime == currentTime - mon.lastTime
            renew == deltaTime >= FpsWindowMs
            pushed == Append(mon.frameTimes, deltaTime)
        IN  [mon EXCEPT
                !.fps = IF renew THEN (frameCount * 1000 * FpsUnit) \div deltaTime ELSE @,
                !.frameCount = IF renew THEN 0 ELSE frameCount,
                !.lastTime = IF renew THEN currentTime ELSE @,
                !.frameTime = deltaTime,
                !.frameTimes = IF Len(pushed) > maxFrameHistory THEN Tail(pushed) ELSE pushed]

\* PerformanceMonitor.getCurrentFPS
getCurrentFPS(mon) == mon.fps

\* the table `qualitySettings` of OptimizedFluidApp.setQuality
setQualitySettings(quality) ==
    CASE quality = "low"    -> [fps |-> 60, particles |-> 500, resolution |-> 50]
      [] quality = "medium" -> [fps |-> 120, particles |-> 1000, resolution |-> 75]
      [] quality = "high"   -> [fps |-> 144, particles |-> 2000, resolution |-> 100]
      [] quality = "ultra"  -> [fps |-> 240, particles |-> 4000, resolution |-> 100]

\* the state after the OptimizedFluidApp constructor and init(): monitor,
\* controller and simulation are built and the monitor is started
AppStart(lowEnd) ==
    LET m == NewOptimizationManager(lowEnd)
    IN  /\ adaptiveQuality = m.adaptiveQuality
        /\ qualitySettings = m.qualitySettings
        /\ performanceHistory = m.performanceHistory
        /\ currentQualityLevel = m.currentQualityLevel
        /\ isLowEnd = m.isLowEnd
        /\ dispatched = <<>>
        /\ recorded = <<>>
        /\ fluidSim = NewFluidSimulation(getFluidParams(m))
        /\ performanceMonitor = NewPerformanceMonitor
        /\ targetFPS = 120
        /\ now = 0
        /\ sampledSinceRenewal = 0
        /\ renderLoop = [position |-> "returned"]

(***************************************************************************)
(* The Simulation Core: class FluidSimulation of src/js/main.js.           *)
(*                                                                         *)
(* Numbers.  A JavaScript Number is a multiple of 1/Unit, a product or a   *)
(* quotient being cut to that grid toward zero, or NaN.  A Float32Array    *)
(* cell holds less than a Number: it keeps FroundDigits significant        *)
(* digits, so that writing a Number to a cell and reading it back is not   *)
(* the identity.  The quotients of the code have a zero divisor only with  *)
(* a zero dividend (the mean of an empty array), which is NaN.             *)
(***************************************************************************)
UnitRoot == 100
Unit == UnitRoot * UnitRoot
NaN == 0 - 2000000000
FroundDigits == 3

\* the Number k and the Number k/parts
Num(k) == k * Unit
Frac(k, parts) == (k * Unit) \div parts

Abs(v) == IF v < 0 THEN 0 - v ELSE v
SignOf(a, b) == IF (a < 0) = (b < 0) THEN 1 ELSE 0 - 1

Add(a, b) == IF a = NaN \/ b = NaN THEN NaN ELSE a + b
Sub(a, b) == IF a = NaN \/ b = NaN THEN NaN ELSE a - b
Neg(a) == IF a = NaN THEN NaN ELSE 0 - a

\* a * b, computed on the halves of the operands to stay within the integers
Mul(a, b) ==
    IF a = NaN \/ b = NaN THEN NaN
    ELSE LET a1 == Abs(a) \div UnitRoot
             a0 == Abs(a) % UnitRoot
             b1 == Abs(b) \div UnitRoot
             b0 == Abs(b) % UnitRoot
             cross == a1 * b0 + a0 * b1
         IN  SignOf(a, b) * (a1 * b1 + cross \div UnitRoot
                             + ((cross % UnitRoot) * UnitRoot + a0 * b0) \div Unit)

\* a / b, by long division
Div(a, b) ==
    IF a = NaN \/ b = NaN \/ b = 0 THEN NaN
    ELSE LET whole == Abs(a) \div Abs(b)
             rest == (Abs(a) % Abs(b)) * UnitRoot
         IN  SignOf(a, b) * (whole * Unit + (rest \div Abs(b)) * UnitRoot
                             + ((rest % Abs(b)) * UnitRoot) \div Abs(b))

\* a < b and a > b: false when an operand is NaN
Less(a, b) == a # NaN /\ b # NaN /\ a < b
Greater(a, b) == Less(b, a)

\* Math.min and Math.floor
MathMin(a, b) == IF a = NaN \/ b = NaN THEN NaN ELSE IF a < b THEN a ELSE b
MathFloor(a) == IF a = NaN THEN NaN ELSE (a \div Unit) * Unit

\* the largest integer whose square is at most n
RECURSIVE ISqrt(_)
ISqrt(n) ==
    IF n < 2 THEN n
    ELSE LET low == 2 * ISqrt(n \div 4)
         IN  IF (low + 1) * (low + 1) <= n THEN low + 1 ELSE low

\* the part of the root of a below the integer root, in units of 1/UnitRoot
RootDigits(a) ==
    LET whole == ISqrt(a)
        Fits(t) == 2 * UnitRoot * whole * t + t * t <= (a - whole * whole) * Unit
    IN  CHOOSE t \in 0..(UnitRoot - 1) : Fits(t) /\ (t = UnitRoot - 1 \/ ~Fits(t + 1))

\* Math.sqrt: the largest Number whose square is at most a
Sqrt(a) ==
    IF a = NaN \/ a < 0 THEN NaN
    ELSE ISqrt(a) * UnitRoot + RootDigits(a)

\* the number of decimal digits of v, and the power 10^n
RECURSIVE Digits(_)
Digits(v) == IF v < 10 THEN 1 ELSE 1 + Digits(v \div 10)
RECURSIVE Pow10(_)
Pow10(n) == IF n = 0 THEN 1 ELSE 10 * Pow10(n - 1)

\* the value a Float32Array cell holds after a is written to it (Math.fround)
Fround(a) ==
    IF a = NaN THEN NaN
    ELSE IF Digits(Abs(a)) <= FroundDigits THEN a
    ELSE LET scale == Pow10(Digits(Abs(a)) - FroundDigits)
         IN  SignOf(a, 1) * (((Abs(a) + scale \div 2) \div scale) * scale)

\* new Float32Array(n), buffer[k] = v and the read buffer[k] (cells count from 1)
Float32Array(n) == [k \in 1..n |-> 0]
Store(buffer, k, v) == IF k \in DOMAIN buffer THEN [buffer EXCEPT ![k] = Fround(v)] ELSE buffer
Cell(buffer, k) == IF k \in DOMAIN buffer THEN buffer[k] ELSE NaN

\* constants of the class
cellSize == 20
updateBatchSize == 100
radius == 50
damping == Frac(8, 10)
velocityDamping == Frac(99, 100)
MaxStep == Frac(16, 1000)

EmptyMap == [key \in {} |-> <<>>]

\* audioData = null, and an array of levels
Null == [null |-> TRUE]
Levels(s) == [levels |-> s]

VARIABLES
    simulation,   \* the FluidSimulation object
    previous,     \* the object before the latest call
    lastCall,     \* the latest completed call: its name and arguments
    completed     \* the number of calls completed since construction

coreVars == <<simulation, previous, lastCall, completed>>

vars == <<poolVars, appVars, coreVars>>

\* FluidSimulation.initializeFields.  Every cell of both grids is zero at all
\* times (updateVelocityField multiplies zeros), so a grid is its number of cells.
initializeFields(sim) ==
    LET fieldWidth == MathFloor(Div(sim.width, Num(10)))
        fieldHeight == MathFloor(Div(sim.height, Num(10)))
        cells == Mul(fieldWidth, fieldHeight) \div Unit
    IN  [sim EXCEPT !.velocityField = cells, !.pressureField = cells]

\* the particle of FluidSimulation.initializeParticles for the Math.random()
\* values `draw` (life, color and size are read by render only)
NewParticle(sim, draw) ==
    [x |-> Mul(draw.x, sim.width),
     y |-> Mul(draw.y, sim.height),
     vx |-> Mul(Sub(draw.vx, Frac(1, 2)), Num(2)),
     vy |-> Mul(Sub(draw.vy, Frac(1, 2)), Num(2))]

\* the loop of initializeParticles from particle i on
RECURSIVE initializeFrom(_, _, _)
initializeFrom(sim, draws, i) ==
    IF i > sim.params.particleCount THEN sim
    ELSE LET particle == NewParticle(sim, draws[i])
         IN  initializeFrom(
                 [sim EXCEPT !.particles = Append(@, particle),
                             !.positions = Store(Store(@, 2 * i - 1, particle.x), 2 * i, particle.y),
                             !.velocities = Store(Store(@, 2 * i - 1, particle.vx), 2 * i, particle.vy)],
                 draws, i + 1)

\* the variant that creates one particle fewer than asked
initializeParticlesShort(sim, draws) ==
    LET full == initializeFrom([sim EXCEPT !.particles = <<>>], draws, 1)
    IN  [full EXCEPT !.particles = IF @ = <<>> THEN @ ELSE SubSeq(@, 1, Len(@) - 1)]

\* FluidSimulation.initializeParticles, draws[i] being the random values of particle i
initializeParticles(sim, draws) == initializeFrom([sim EXCEPT !.particles = <<>>], draws, 1)

\* new FluidSimulation(width, height, params): the forms of `params` that name
\* every parameter, as getFluidParams does, so that the spread overrides the defaults
FluidSimulation(width, height, params, draws) ==
    initializeFields(initializeParticles(
        [width |-> width,
         height |-> height,
         params |-> params,
         particles |-> <<>>,
         velocityField |-> 0,
         pressureField |-> 0,
         spatialHash |-> EmptyMap,
         forces |-> Float32Array(params.particleCount * 2),
         positions |-> Float32Array(params.particleCount * 2),
         velocities |-> Float32Array(params.particleCount * 2),
         currentScene |-> "default",
         audioInfluence |-> 0],
        draws))

\* FluidSimulation.updateAudioInfluence
updateAudioInfluence(sim, audioData) ==
    [sim EXCEPT !.audioInfluence =
        Div(Div(Num(Sum(audioData)), Num(Len(audioData))), Num(255))]

\* the force of the scene on a particle: the switch of applyParticleForces.
\* The scenes followed are 'default' and 'vortex'; 'wave' and 'spiral' need the
\* clock and the circular functions.
sceneForce(sim, particle) ==
    IF sim.currentScene = "vortex"
    THEN LET centerX == Div(sim.width, Num(2))
             centerY == Div(sim.height, Num(2))
             dx == Sub(particle.x, centerX)
             dy == Sub(particle.y, centerY)
             distance == Sqrt(Add(Mul(dx, dx), Mul(dy, dy)))
         IN  IF Greater(distance, 0)
             THEN LET strength == Div(Num(100), Add(distance, Num(1)))
                  IN  [fx |-> Mul(Mul(Neg(dy), strength), sim.audioInfluence),
                       fy |-> Mul(Mul(dx, strength), sim.audioInfluence)]
             ELSE [fx |-> 0, fy |-> 0]
    ELSE [fx |-> 0, fy |-> 0]

\* the variant without the viscosity term
applyParticleForcesNoDrag(sim, particle, index, dt) ==
    LET scene == sceneForce(sim, particle)
    IN  [sim EXCEPT !.forces = Store(Store(@, 2 * index - 1, scene.fx), 2 * index, scene.fy)]

\* FluidSimulation.applyParticleForces
applyParticleForces(sim, particle, index, dt) ==
    LET scene == sceneForce(sim, particle)
        fx == Sub(scene.fx, Mul(particle.vx, sim.params.viscosity))
        fy == Sub(scene.fy, Mul(particle.vy, sim.params.viscosity))
    IN  [sim EXCEPT !.forces = Store(Store(@, 2 * index - 1, fx), 2 * index, fy)]

\* worker script, calculateForcesBatch: the two cells of the Float32Array it
\* returns for one particle. The script knows the scenes 'vortex' and 'wave';
\* 'wave' needs the clock and the sine and is not followed here.
workerForce(particle, scene, audioInfluence, width, height) ==
    LET Swirl(dx, dy, distance) ==
            IF Greater(distance, 0)
            THEN [fx |-> Mul(Mul(Neg(dy), Div(Num(100), Add(distance, Num(1)))), audioInfluence),
                  fy |-> Mul(Mul(dx, Div(Num(100), Add(distance, Num(1)))), audioInfluence)]
            ELSE [fx |-> 0, fy |-> 0]
        Around(dx, dy) == Swirl(dx, dy, Sqrt(Add(Mul(dx, dx), Mul(dy, dy))))
        force == IF scene = "vortex"
                 THEN Around(Sub(particle.x, Div(width, Num(2))),
                             Sub(particle.y, Div(height, Num(2))))
                 ELSE [fx |-> 0, fy |-> 0]
    IN  [fx |-> Fround(force.fx), fy |-> Fround(force.fy)]

\* forces[k] || 0: NaN and 0 are falsy
OrZero(v) == IF v = NaN THEN 0 ELSE v

\* worker script, updateParticlesBatch: the particle it returns for one
\* particle and its two force cells
workerStep(particle, fx, fy, deltaTime, params) ==
    LET Advanced(vx, vy) ==
            [x |-> Add(particle.x, Mul(Mul(vx, deltaTime), params.speed)),
             y |-> Add(particle.y, Mul(Mul(vy, deltaTime), params.speed)),
             vx |-> vx,
             vy |-> vy]
    IN  Advanced(Mul(Add(particle.vx, Mul(OrZero(fx), deltaTime)), velocityDamping),
                 Mul(Add(particle.vy, Mul(OrZero(fy), deltaTime)), velocityDamping))

\* the variant that reflects without damping
handleBoundariesElastic(sim, particle) ==
    LET alongX == IF Less(particle.x, 0)
                  THEN [particle EXCEPT !.x = 0, !.vx = Neg(particle.vx)]
                  ELSE IF Greater(particle.x, sim.width)
                  THEN [particle EXCEPT !.x = sim.width, !.vx = Neg(particle.vx)]
                  ELSE particle
    IN  IF Less(alongX.y, 0)
        THEN [alongX EXCEPT !.y = 0, !.vy = Neg(alongX.vy)]
        ELSE IF Greater(alongX.y, sim.height)
        THEN [alongX EXCEPT !.y = sim.height, !.vy = Neg(alongX.vy)]
        ELSE alongX

\* FluidSimulation.handleBoundaries
handleBoundaries(sim, particle) ==
    LET alongX == IF Less(particle.x, 0)
                  THEN [particle EXCEPT !.x = 0, !.vx = Mul(Neg(particle.vx), damping)]
                  ELSE IF Greater(particle.x, sim.width)
                  THEN [particle EXCEPT !.x = sim.width, !.vx = Mul(Neg(particle.vx), damping)]
                  ELSE particle
    IN  IF Less(alongX.y, 0)
        THEN [alongX EXCEPT !.y = 0, !.vy = Mul(Neg(alongX.vy), damping)]
        ELSE IF Greater(alongX.y, sim.height)
        THEN [alongX EXCEPT !.y = sim.height, !.vy = Mul(Neg(alongX.vy), damping)]
        ELSE alongX

\* the cell of a position: the key of updateSpatialHash
CellOf(particle) ==
    <<MathFloor(Div(particle.x, Num(cellSize))), MathFloor(Div(particle.y, Num(cellSize)))>>

\* FluidSimulation.updateSpatialHash
updateSpatialHash(sim, particle, index) ==
    LET key == CellOf(particle)
        entries == IF key \in DOMAIN sim.spatialHash THEN sim.spatialHash[key] ELSE <<>>
    IN  [sim EXCEPT !.spatialHash =
            [k \in DOMAIN sim.spatialHash \cup {key} |->
                IF k = key THEN Append(entries, index) ELSE sim.spatialHash[k]]]

\* lines 412-422 of updateParticleBatch for particle i, whose forces are stored:
\* the velocity takes the force and is damped, and the position takes the velocity
integrateForced(forced, i, dt) ==
    LET Advanced(particle, vx, vy) ==
            [x |-> Add(particle.x, Mul(Mul(vx, dt), forced.params.speed)),
             y |-> Add(particle.y, Mul(Mul(vy, dt), forced.params.speed)),
             vx |-> vx,
             vy |-> vy]
    IN  [forced EXCEPT !.particles[i] =
            Advanced(@, Mul(Add(@.vx, Mul(Cell(forced.forces, 2 * i - 1), dt)), velocityDamping),
                        Mul(Add(@.vy, Mul(Cell(forced.forces, 2 * i), dt)), velocityDamping))]

\* lines 408-423 of updateParticleBatch for particle i: the forces are stored,
\* and the particle has moved but has not met the walls yet
integrate(sim, i, dt) ==
    integrateForced(applyParticleForces(sim, sim.particles[i], i, dt), i, dt)

\* line 425 of updateParticleBatch: the particle i meets the walls
boundParticle(sim, i) == [sim EXCEPT !.particles[i] = handleBoundaries(sim, @)]

\* line 428 of updateParticleBatch: the particle i enters the spatial hash
hashParticle(sim, i) == updateSpatialHash(sim, sim.particles[i], i)

\* lines 431-436 of updateParticleBatch: the typed arrays take the particle i
mirrorParticle(sim, i) ==
    [sim EXCEPT
        !.positions = Store(Store(@, 2 * i - 1, sim.particles[i].x), 2 * i, sim.particles[i].y),
        !.velocities = Store(Store(@, 2 * i - 1, sim.particles[i].vx), 2 * i, sim.particles[i].vy)]

\* the variant that leaves the typed arrays alone
updateParticleUnmirrored(sim, i, dt) ==
    hashParticle(boundParticle(integrate(sim, i, dt), i), i)

\* the body of the loop of updateParticleBatch for particle i
updateParticle(sim, i, dt) ==
    mirrorParticle(hashParticle(boundParticle(integrate(sim, i, dt), i), i), i)

\* FluidSimulation.updateParticleBatch: particles start..last (counted from 1)
RECURSIVE updateParticleBatch(_, _, _, _)
updateParticleBatch(sim, start, last, dt) ==
    IF start > last THEN sim
    ELSE updateParticleBatch(updateParticle(sim, start, dt), start + 1, last, dt)

\* the batch loop of update from particle `start` on
RECURSIVE updateBatches(_, _, _)
updateBatches(sim, start, dt) ==
    IF start > Len(sim.particles) THEN sim
    ELSE updateBatches(
             updateParticleBatch(sim, start, Min(start + updateBatchSize - 1, Len(sim.particles)), dt),
             start + updateBatchSize, dt)

\* FluidSimulation.updateVelocityField: the decay of cells that are all zero
updateVelocityField(sim, dt) == sim

\* the variant without the cap
stepOfUncapped(deltaTime) == Div(deltaTime, Num(1000))

\* the integration step of update(deltaTime)
stepOf(deltaTime) == MathMin(Div(deltaTime, Num(1000)), MaxStep)

\* the object once update has looked at audioData
heard(sim, audioData) ==
    IF audioData # Null THEN updateAudioInfluence(sim, audioData.levels) ELSE sim

\* FluidSimulation.update(deltaTime, audioData)
update(sim, deltaTime, audioData) ==
    LET dt == stepOf(deltaTime)
        cleared == [heard(sim, audioData) EXCEPT !.spatialHash = EmptyMap]
    IN  updateVelocityField(updateBatches(cleared, 1, dt), dt)

\* the variant that also pushes the particles on the rim and beyond
pushedBeyond(particle, x, y, strength) ==
    LET dx == Sub(particle.x, x)
        dy == Sub(particle.y, y)
        distance == Sqrt(Add(Mul(dx, dx), Mul(dy, dy)))
        force == Mul(Mul(Div(Sub(Num(radius), distance), Num(radius)), strength), Num(100))
    IN  IF Greater(distance, 0)
        THEN [particle EXCEPT !.vx = Add(@, Mul(Div(dx, distance), force)),
                              !.vy = Add(@, Mul(Div(dy, distance), force))]
        ELSE particle

\* the impulse of addForce(x, y, strength) on one particle
pushed(particle, x, y, strength) ==
    LET dx == Sub(particle.x, x)
        dy == Sub(particle.y, y)
        distanceSquared == Add(Mul(dx, dx), Mul(dy, dy))
        radiusSquared == Num(radius * radius)
    IN  IF Less(distanceSquared, radiusSquared) /\ Greater(distanceSquared, 0)
        THEN LET distance == Sqrt(distanceSquared)
                 force == Mul(Mul(Div(Sub(Num(radius), distance), Num(radius)), strength), Num(100))
             IN  [particle EXCEPT !.vx = Add(@, Mul(Div(dx, distance), force)),
                                  !.vy = Add(@, Mul(Div(dy, distance), force))]
        ELSE particle

\* FluidSimulation.addForce(x, y, strength)
addForce(sim, x, y, strength) ==
    [sim EXCEPT !.particles = [i \in 1..Len(@) |-> pushed(@[i], x, y, strength)]]

\* FluidSimulation.setScene
setScene(sim, sceneName) == [sim EXCEPT !.currentScene = sceneName]

\* what setParticleCount compares and sets: params and the length of the store
Summary(sim) ==
    [particleCount |-> sim.params.particleCount,
     resolution |-> sim.params.resolution,
     particles |-> Len(sim.particles)]

\* FluidSimulation.setParticleCount(count) on the whole object
reallocate(sim, count, draws) ==
    IF setParticleCount(Summary(sim), count) = Summary(sim) THEN sim
    ELSE initializeParticles(
             [sim EXCEPT !.params.particleCount = count,
                         !.forces = Float32Array(count * 2),
                         !.positions = Float32Array(count * 2),
                         !.velocities = Float32Array(count * 2)],
             draws)

\* the variant that moves the particles into the new box
resizeRepositioning(sim, width, height) ==
    initializeFields(
        [sim EXCEPT !.width = width, !.height = height,
                    !.particles = [i \in 1..Len(@) |-> [@[i] EXCEPT !.y = MathMin(@, height)]]])

\* FluidSimulation.resize(width, height)
resize(sim, width, height) ==
    initializeFields([sim EXCEPT !.width = width, !.height = height])

\* the values Math.random() returns for one particle
Draw(x, y, vx, vy) == [x |-> x, y |-> y, vx |-> vx, vy |-> vy]

\* the parameters of getFluidParams for a store of `count` particles
CoreParams(count) ==
    [particleCount |-> count,
     viscosity |-> Frac(1, 10000),
     density |-> Num(1),
     speed |-> Num(1),
     resolution |-> Num(1)]

\* the other specifications follow the sizes of the store in fluidSim and
\* leave the object of the core alone, as an empty store
CoreUntracked ==
    /\ simulation = FluidSimulation(Num(100), Num(100), CoreParams(0), <<>>)
    /\ previous = simulation
    /\ lastCall = [name |-> "constructor"]
    /\ completed = 0

(***************************************************************************)
(* Actions.                                                                *)
(***************************************************************************)
\* the pool's fields and the environment take the values of pool state q
Becomes(q) ==
    /\ workers' = q.workers
    /\ availableWorkers' = q.availableWorkers
    /\ taskQueue' = q.taskQueue
    /\ isInitialized' = q.isInitialized
    /\ nextWorker' = q.nextWorker
    /\ inbox' = q.inbox
    /\ deferred' = q.deferred
    /\ handles' = q.handles
    /\ maxWorkers' = maxWorkers
    /\ callerParticles' = callerParticles
    /\ operation' = operation
    /\ callBudget' = callBudget
    /\ UNCHANGED <<appVars, coreVars>>

\* the calls made so far, a batch operation without slices counting as one
Calls == Len(handles) + Cardinality({b \in 1..Len(batches) : batches[b].slices = <<>>})

\* a batch operation of `kind` whose slice loop issues the payloads `datas`.
\* The pool forwards type and data to the worker without looking at them, so
\* a run uses one kind of batch operation.
BatchCall(kind, datas) ==
    /\ operation = kind
    /\ Calls + (IF datas = <<>> THEN 1 ELSE Len(datas)) <= callBudget
    /\ \E q \in RunCalls(Pool, kind, datas) :
        /\ Becomes(q)
        /\ batches' = SettleAll(
                Append(batches,
                       [kind |-> kind,
                        payloads |-> datas,
                        slices |-> [i \in 1..Len(datas) |-> Len(handles) + i],
                        status |-> "pending", result |-> <<>>]),
                q.handles)

\* WorkerPool.updateParticles(particles, forces, deltaTime, params)
UpdateParticles ==
    BatchCall("updateParticles", updateParticlesSlices(callerParticles, Forces(Len(callerParticles))))

\* WorkerPool.calculateForces(particles, scene, audioInfluence, width, height)
CalculateForces ==
    BatchCall("calculateForces", calculateForcesSlices(callerParticles))

\* WorkerPool.calculateSpatialHash(particles, cellSize)
CalculateSpatialHash ==
    BatchCall("spatialHash", << [particles |-> callerParticles, forces |-> <<>>] >>)

\* a direct call of WorkerPool.initialize() on a pool that is not initialized
InitializeWith(created) ==
    /\ ~isInitialized
    /\ created \in InitOutcomes(Pool)
    /\ Becomes(initialize(Pool, created))
    /\ UNCHANGED batches

Initialize == \E created \in 0..maxWorkers : InitializeWith(created)

\* the continuation of the oldest executeTask call suspended at its await
ResumeExecuteTask ==
    /\ deferred # <<>>
    /\ \E q \in ResumeOutcomes(Pool) : Becomes(q)
    /\ UNCHANGED batches

\* worker w answers its oldest message: worker.onmessage
WorkerReplies(w) ==
    /\ deferred = <<>>
    /\ inbox[w] # <<>>
    /\ LET m == Head(inbox[w])
           q == handleWorkerMessage([Pool EXCEPT !.inbox[w] = Tail(@)], w,
                                    WorkerResult(m.type, m.data), m.taskId)
       IN  /\ Becomes(q)
           /\ batches' = SettleAll(batches, q.handles)

\* worker w throws on its oldest message: worker.onerror
WorkerFails(w) ==
    /\ deferred = <<>>
    /\ inbox[w] # <<>>
    /\ LET q == handleWorkerError([Pool EXCEPT !.inbox[w] = Tail(@)], w)
       IN  /\ Becomes(q)
           /\ batches' = SettleAll(batches, q.handles)

\* WorkerPool.terminate()
Terminate ==
    /\ Becomes(terminate(Pool))
    /\ UNCHANGED batches

\* the state after construction, before any call
Fresh ==
    /\ nextWorker = 0
    /\ inbox = <<>>
    /\ deferred = <<>>
    /\ handles = <<>>
    /\ batches = <<>>

PoolInit ==
    /\ \E requested \in 1..MaxRequested : Constructor(requested)
    /\ Fresh
    /\ callerParticles \in {Particles(n) : n \in 0..MaxParticles}
    /\ operation \in {"updateParticles", "calculateForces", "spatialHash"}
    /\ callBudget = MaxHandles
    /\ AppStart(FALSE)
    /\ CoreUntracked

PoolNext ==
    \/ UpdateParticles
    \/ CalculateForces
    \/ CalculateSpatialHash
    \/ Initialize
    \/ ResumeExecuteTask
    \/ \E w \in Range(workers) : WorkerReplies(w)
    \/ \E w \in Range(workers) : WorkerFails(w)
    \/ Terminate

PoolSpec == PoolInit /\ [][PoolNext]_poolVars

\* some worker answers or throws on its oldest message
WorkerResponds == \E w \in Range(workers) : WorkerReplies(w) \/ WorkerFails(w)

(***************************************************************************)
(* A caller that computes forces for MaxParticles particles on a pool of   *)
(* MaxRequested workers and makes one call more than in PoolSpec: room     *)
(* for two calculateForces calls of two slices each.                       *)
(***************************************************************************)
ForcesInit ==
    /\ Constructor(MaxRequested)
    /\ Fresh
    /\ callerParticles = Particles(MaxParticles)
    /\ operation = "calculateForces"
    /\ callBudget = MaxHandles + 1
    /\ AppStart(FALSE)
    /\ CoreUntracked

ForcesNext ==
    \/ CalculateForces
    \/ Initialize
    \/ ResumeExecuteTask
    \/ \E w \in Range(workers) : WorkerReplies(w)
    \/ \E w \in Range(workers) : WorkerFails(w)
    \/ Terminate

ForcesSpec == ForcesInit /\ [][ForcesNext]_poolVars

(***************************************************************************)
(* The controller and the application.                                     *)
(***************************************************************************)
\* the pool the application constructs and, before destroy(), never calls
PoolIdle ==
    /\ Constructor(MaxRequested)
    /\ Fresh
    /\ callerParticles = <<>>
    /\ operation = "updateParticles"
    /\ callBudget = 0

\* the controller's fields and the events of this step take the values of m
ManagerBecomes(m) ==
    /\ adaptiveQuality' = m.adaptiveQuality
    /\ qualitySettings' = m.qualitySettings
    /\ performanceHistory' = m.performanceHistory
    /\ currentQualityLevel' = m.currentQualityLevel
    /\ isLowEnd' = m.isLowEnd
    /\ dispatched' = m.dispatched

\* the FPS arguments of the direct calls: below fpsMin, fpsMin, fpsMax, above fpsMax
FpsArguments == {Fps(0), Fps(fpsMin), Fps(fpsMax), Fps(130)}

\* the time between two rendered frames, in ms
FrameTimes == {500, 1000}

QualityLevels == {"low", "medium", "high", "ultra"}

\* the targetFPS values of the application: 30 for a hidden page, else setQuality's
TargetValues == {30} \cup {setQualitySettings(quality).fps : quality \in QualityLevels}

\* a direct call optimizationManager.adjustQuality(currentFPS, targetFPS)
AdjustQuality(currentFPS, target) ==
    /\ Len(recorded) < MaxSamples
    /\ IF Len(recorded) < MaxVaried THEN TRUE ELSE currentFPS = recorded[Len(recorded)]
    /\ recorded' = IF adaptiveQuality THEN Append(recorded, currentFPS) ELSE recorded
    /\ ManagerBecomes(adjustQuality(Manager, currentFPS, target))
    /\ UNCHANGED <<fluidSim, performanceMonitor, targetFPS, now, sampledSinceRenewal, renderLoop>>
    /\ UNCHANGED <<poolVars, coreVars>>

\* some direct call of adjustQuality
AdjustQualityCall ==
    \E currentFPS \in FpsArguments, target \in TargetValues : AdjustQuality(currentFPS, target)

\* optimizationManager.setAdaptiveQuality(enabled): the adaptiveQuality checkbox
SetAdaptiveQuality(enabled) ==
    /\ ManagerBecomes(setAdaptiveQuality(Manager, enabled))
    /\ UNCHANGED <<recorded, fluidSim, performanceMonitor, targetFPS, now, sampledSinceRenewal,
                   renderLoop>>
    /\ UNCHANGED <<poolVars, coreVars>>

\* OptimizedFluidApp.setQuality(quality): the qualitySelect control
SetQuality(quality) ==
    LET settings == setQualitySettings(quality)
    IN  /\ targetFPS' = settings.fps
        /\ fluidSim' = setResolution(setParticleCount(fluidSim, settings.particles),
                                     settings.resolution)
        /\ ManagerBecomes(updateQualitySettings(Manager, settings))
        /\ UNCHANGED <<recorded, performanceMonitor, now, sampledSinceRenewal, renderLoop>>
        /\ UNCHANGED <<poolVars, coreVars>>

\* one pass of OptimizedFluidApp.renderLoop that renders a frame, d ms after the
\* previous one: update() samples the monitor's FPS value for the controller,
\* then recordFrame() counts the frame. No listener is registered for
\* qualityChanged, so dispatching it changes nothing else.
Frame(d) ==
    LET sampled == adaptiveQuality
        m == IF sampled
             THEN adjustQuality(Manager, getCurrentFPS(performanceMonitor), targetFPS)
             ELSE Manager
        mon == recordFrame(performanceMonitor, now + d)
    IN  /\ Len(performanceMonitor.frameTimes) < MaxFrames
        /\ ManagerBecomes(m)
        /\ recorded' = IF sampled THEN Append(recorded, getCurrentFPS(performanceMonitor))
                       ELSE recorded
        /\ performanceMonitor' = mon
        /\ now' = now + d
        /\ sampledSinceRenewal' =
              IF mon.lastTime # performanceMonitor.lastTime THEN 0
              ELSE sampledSinceRenewal + (IF sampled THEN 1 ELSE 0)
        /\ UNCHANGED <<fluidSim, targetFPS, renderLoop>>
        /\ UNCHANGED <<poolVars, coreVars>>

\* the controller on its own: direct calls of its methods
ControllerInit ==
    /\ PoolIdle
    /\ \E lowEnd \in BOOLEAN : AppStart(lowEnd)
    /\ CoreUntracked

ControllerNext ==
    \/ AdjustQualityCall
    \/ \E enabled \in BOOLEAN : SetAdaptiveQuality(enabled)

ControllerSpec == ControllerInit /\ [][ControllerNext]_vars

\* the running application: frames and the quality controls of the page
AppInit ==
    /\ PoolIdle
    /\ \E lowEnd \in BOOLEAN : AppStart(lowEnd)
    /\ CoreUntracked

AppNext ==
    \/ \E d \in FrameTimes : Frame(d)
    \/ \E quality \in QualityLevels : SetQuality(quality)
    \/ \E enabled \in BOOLEAN : SetAdaptiveQuality(enabled)

AppSpec == AppInit /\ [][AppNext]_vars

(***************************************************************************)
(* The Simulation Core on its own: the calls of its methods.               *)
(***************************************************************************)
\* calls made on one object
MaxCalls == 3

\* the particle counts asked for
ParticleCounts == 0..2

\* the canvas at construction, and the canvas sizes of resize
Canvas == <<Num(100), Num(100)>>
CanvasSizes == {Canvas, <<Num(52), Num(38)>>}

\* the Math.random() values of a particle: off the centre and moving, at rest
\* in the centre, on the left wall next to the bottom wall and moving out, and
\* on the top wall next to the right wall and moving out
DrawList ==
    <<Draw(Frac(59, 100), Frac(62, 100), Frac(75, 100), Frac(25, 100)),
      Draw(Frac(1, 2), Frac(1, 2), Frac(1, 2), Frac(1, 2)),
      Draw(0, Frac(9999, 10000), 0, Frac(9999, 10000)),
      Draw(Frac(9999, 10000), 0, Frac(9999, 10000), 0)>>

\* the draws of `count` particles, taken from DrawList in turn from `first` on
DrawsFrom(first, count) == [i \in 1..count |-> DrawList[((first + i - 2) % Len(DrawList)) + 1]]
DrawsFor(count) == {DrawsFrom(first, count) : first \in 1..Len(DrawList)}

\* the arguments of update: the time since the last frame in ms, and the levels
UpdateArguments ==
    {<<Num(8), Null>>, <<Num(16), Null>>, <<Num(40), Null>>,
     <<Num(40), Levels(<<>>)>>, <<Num(40), Levels(<<255, 0>>)>>}

\* the arguments of addForce: a mouse move and a click
ForceArguments == {<<Num(59), Num(50), Frac(1, 2)>>, <<Num(50), Num(50), Num(1)>>}

Scenes == {"default", "vortex"}

\* the object becomes `next` by the completed call `call`
CoreBecomes(next, call) ==
    /\ completed < MaxCalls
    /\ simulation' = next
    /\ previous' = simulation
    /\ lastCall' = call
    /\ completed' = completed + 1
    /\ UNCHANGED <<poolVars, appVars>>

\* fluidSim.update(deltaTime, audioData)
Update(deltaTime, audioData) ==
    CoreBecomes(update(simulation, deltaTime, audioData),
                [name |-> "update", deltaTime |-> deltaTime, audioData |-> audioData])

\* fluidSim.addForce(x, y, strength)
AddForce(x, y, strength) ==
    CoreBecomes(addForce(simulation, x, y, strength),
                [name |-> "addForce", x |-> x, y |-> y, strength |-> strength])

\* fluidSim.setParticleCount(count)
SetParticleCount(count, draws) ==
    CoreBecomes(reallocate(simulation, count, draws),
                [name |-> "setParticleCount", count |-> count])

\* fluidSim.resize(width, height): the window was resized
Resize(width, height) ==
    /\ <<width, height>> # <<simulation.width, simulation.height>>
    /\ CoreBecomes(resize(simulation, width, height),
                   [name |-> "resize", width |-> width, height |-> height])

\* fluidSim.setScene(sceneName): the scene select changed
SetScene(sceneName) ==
    /\ sceneName # simulation.currentScene
    /\ CoreBecomes(setScene(simulation, sceneName), [name |-> "setScene", sceneName |-> sceneName])

SimInit ==
    /\ PoolIdle
    /\ AppStart(FALSE)
    /\ \E count \in ParticleCounts : \E draws \in DrawsFor(count) :
          simulation = FluidSimulation(Canvas[1], Canvas[2], CoreParams(count), draws)
    /\ previous = simulation
    /\ lastCall = [name |-> "constructor"]
    /\ completed = 0

SimNext ==
    \/ \E arguments \in UpdateArguments : Update(arguments[1], arguments[2])
    \/ \E arguments \in ForceArguments : AddForce(arguments[1], arguments[2], arguments[3])
    \/ \E count \in ParticleCounts : \E draws \in DrawsFor(count) : SetParticleCount(count, draws)
    \/ \E size \in CanvasSizes : Resize(size[1], size[2])
    \/ \E sceneName \in Scenes : SetScene(sceneName)

SimSpec == SimInit /\ [][SimNext]_vars

(***************************************************************************)
(* The render loop statement by statement: a pass of renderLoop that       *)
(* renders calls update(), render() and recordFrame() in turn (main.js     *)
(* 209-214), and the listeners of the page are the other callbacks of the  *)
(* main thread. None of the three calls awaits, so the pass is one         *)
(* callback; the main thread starts a callback when none is running.       *)
(***************************************************************************)
\* a main thread that would start a callback while another one is running
mainThreadPreemptive(loop) == TRUE

\* the main thread is free to start a callback: renderLoop has returned
mainThreadFree(loop) == loop.position = "returned"

\* the audioData values getFrequencyData() hands to update
AudioValues == {Null, Levels(<<255, 0>>)}

\* renderLoop up to this.update(deltaTime), d ms after the previous pass:
\* OptimizedFluidApp.update steps the simulation and samples the monitor's
\* FPS value for the controller
PassUpdates(d, audioData) ==
    /\ mainThreadFree(renderLoop)
    /\ Len(performanceMonitor.frameTimes) < MaxFrames
    /\ completed < MaxCalls
    /\ simulation' = update(simulation, Num(d), audioData)
    /\ previous' = simulation
    /\ lastCall' = [name |-> "update", deltaTime |-> Num(d), audioData |-> audioData]
    /\ completed' = completed + 1
    /\ ManagerBecomes(IF adaptiveQuality
                      THEN adjustQuality(Manager, getCurrentFPS(performanceMonitor), targetFPS)
                      ELSE Manager)
    /\ recorded' = IF adaptiveQuality
                   THEN Append(recorded, getCurrentFPS(performanceMonitor))
                   ELSE recorded
    /\ sampledSinceRenewal' = sampledSinceRenewal + (IF adaptiveQuality THEN 1 ELSE 0)
    /\ now' = now + d
    /\ renderLoop' = [position |-> "updated"]
    /\ UNCHANGED <<fluidSim, performanceMonitor, targetFPS>>
    /\ UNCHANGED poolVars

\* this.render(): the canvas is drawn from the simulation, which it leaves alone
PassRenders ==
    /\ renderLoop.position = "updated"
    /\ renderLoop' = [position |-> "rendered"]
    /\ UNCHANGED <<adaptiveQuality, qualitySettings, performanceHistory, currentQualityLevel,
                   isLowEnd, dispatched, recorded, fluidSim, performanceMonitor, targetFPS,
                   now, sampledSinceRenewal>>
    /\ UNCHANGED <<poolVars, coreVars>>

\* this.performanceMonitor.recordFrame(currentTime) and the return of the pass
PassRecords ==
    /\ renderLoop.position = "rendered"
    /\ performanceMonitor' = recordFrame(performanceMonitor, now)
    /\ sampledSinceRenewal' =
          IF performanceMonitor'.lastTime # performanceMonitor.lastTime THEN 0
          ELSE sampledSinceRenewal
    /\ renderLoop' = [position |-> "returned"]
    /\ UNCHANGED <<adaptiveQuality, qualitySettings, performanceHistory, currentQualityLevel,
                   isLowEnd, dispatched, recorded, fluidSim, targetFPS, now>>
    /\ UNCHANGED <<poolVars, coreVars>>

\* the listeners of the page: mouse and touch, the resize timer, the quality select
Interaction == \E arguments \in ForceArguments : AddForce(arguments[1], arguments[2], arguments[3])
HandleResize == \E size \in CanvasSizes : Resize(size[1], size[2])
QualitySelected == \E quality \in QualityLevels : SetQuality(quality)

LoopInit ==
    /\ PoolIdle
    /\ AppStart(FALSE)
    /\ \E draws \in DrawsFor(1) :
          simulation = FluidSimulation(Canvas[1], Canvas[2], CoreParams(1), draws)
    /\ previous = simulation
    /\ lastCall = [name |-> "constructor"]
    /\ completed = 0

LoopNext ==
    \/ \E d \in FrameTimes, audioData \in AudioValues : PassUpdates(d, audioData)
    \/ PassRenders
    \/ PassRecords
    \/ mainThreadFree(renderLoop) /\ Interaction
    \/ mainThreadFree(renderLoop) /\ HandleResize
    \/ mainThreadFree(renderLoop) /\ QualitySelected

LoopSpec == LoopInit /\ [][LoopNext]_vars

(***************************************************************************)
(* Properties.                                                             *)
(***************************************************************************)
\* the promises of the slice tasks of batch operation b
SlicePromises(b) == [i \in 1..Len(batches[b].slices) |-> handles[batches[b].slices[i]]]

\* batch operation b has a slice promise of the given status
SomeSlice(b, status) == \E i \in 1..Len(batches[b].slices) : SlicePromises(b)[i].status = status

\* what the workers compute for the caller's whole particle array, particle by particle
ExpectedResult(kind) ==
    CASE kind = "updateParticles" ->
            updateParticlesBatch([particles |-> callerParticles,
                                  forces |-> Forces(Len(callerParticles))])
      [] kind = "calculateForces" ->
            calculateForcesBatch([particles |-> callerParticles, forces |-> <<>>])
      [] kind = "spatialHash" ->
            calculateSpatialHash([particles |-> callerParticles, forces |-> <<>>])

\* C1: a resolved updateParticles or calculateForces call yields one entry per
\* input particle (two floats per particle for forces), entry i being the worker
\* output for particle i, whatever the order in which the slices completed.
C1_MergedInSliceOrder ==
    \A b \in 1..Len(batches) :
        (batches[b].kind \in {"updateParticles", "calculateForces"}
         /\ batches[b].status = "resolved")
        => batches[b].result = ExpectedResult(batches[b].kind)

\* C2: while a slice task of a batch operation is pending, the batch operation
\* has not released a result.
C2_JoinWaitsForAllSlices ==
    \A b \in 1..Len(batches) : SomeSlice(b, "pending") => batches[b].status # "resolved"

\* C2 witness: a batch operation of several slices, one resolved and one still
\* pending, that has not settled.
C2_Witness ==
    \E b \in 1..Len(batches) :
        /\ Len(batches[b].slices) >= 2
        /\ SomeSlice(b, "resolved")
        /\ SomeSlice(b, "pending")
        /\ batches[b].status = "pending"

\* C3: no worker has more than one pending task assigned to it.
C3_OneTaskPerWorker ==
    \A w \in Range(workers) :
        Cardinality({i \in 1..Len(taskQueue) : taskQueue[i].worker = w}) <= 1

\* task t, assigned to a worker, is resolved with that worker's result for it
\* when the worker answers its oldest message in pool state p
ResolvedByOwnWorker(p, t) ==
    /\ p.inbox[t.worker] # <<>>
    /\ LET m == Head(p.inbox[t.worker])
           q == handleWorkerMessage([p EXCEPT !.inbox[t.worker] = Tail(@)], t.worker,
                                    WorkerResult(m.type, m.data), m.taskId)
       IN  q.handles[t.handle] = [status |-> "resolved", value |-> WorkerResult(t.type, t.data)]

\* the effect claimed for an error of worker w
ErrorIsolated(w) ==
    LET failed == {taskQueue[i].handle : i \in {j \in 1..Len(taskQueue) : taskQueue[j].worker = w}}
    IN  /\ taskQueue' = SelectSeq(taskQueue, LAMBDA t : t.worker # w)
        /\ \A h \in 1..Len(handles) :
              IF h \in failed THEN handles'[h].status = "rejected" ELSE handles'[h] = handles[h]
        /\ \A i \in 1..Len(taskQueue') :
              taskQueue'[i].worker # 0 => ResolvedByOwnWorker(Pool', taskQueue'[i])

\* C4: an error of a worker rejects and removes exactly the tasks assigned to
\* it; every other task stays in the queue, is not rejected, and is resolved
\* when its own worker replies.
C4_FaultIsolation ==
    [][\A w \in Range(workers) : WorkerFails(w) => ErrorIsolated(w)]_poolVars

\* C5: a batch operation with a rejected slice task is rejected.
C5_RejectedSliceRejectsBatch ==
    \A b \in 1..Len(batches) : SomeSlice(b, "rejected") => batches[b].status = "rejected"

\* C5 witness: a batch operation rejected with one slice resolved and another rejected.
C5_Witness ==
    \E b \in 1..Len(batches) :
        /\ SomeSlice(b, "resolved")
        /\ SomeSlice(b, "rejected")
        /\ batches[b].status = "rejected"

\* C6: a batch operation called after one that a worker error rejected is
\* resolved once the workers have replied to all its slice tasks.
C6_LaterBatchResolves ==
    \A b1, b2 \in 1..Len(batches) :
        (/\ b1 < b2
         /\ batches[b1].status = "rejected"
         /\ batches[b1].result = WorkerError
         /\ \A i \in 1..Len(batches[b2].slices) : SlicePromises(b2)[i].status = "resolved")
        => batches[b2].status = "resolved"

\* C7: no two pending tasks carry the same id.
C7_UniqueTaskIds ==
    \A i, j \in 1..Len(taskQueue) : i # j => taskQueue[i].id # taskQueue[j].id

\* C8: dispatch is first in, first out: no task without a worker precedes, in
\* the queue, a task that has been given one.
C8_FifoDispatch ==
    \A i, j \in 1..Len(taskQueue) :
        (i < j /\ taskQueue[j].worker # 0) => taskQueue[i].worker # 0

\* C8 witness: the head of the queue is in flight while two later tasks wait.
C8_Witness ==
    /\ Len(taskQueue) >= 3
    /\ taskQueue[1].worker # 0
    /\ taskQueue[2].worker = 0
    /\ taskQueue[3].worker = 0

\* C9: an initialize() call that throws leaves no worker behind.
C9_AllOrNothing ==
    [][\A created \in 0..(maxWorkers - 1) :
          InitializeWith(created)
          => (workers' = <<>> /\ availableWorkers' = <<>> /\ ~isInitialized')]_poolVars

\* C10: the pool never holds more than min(requested maxWorkers, 8) workers.
C10_WorkerCountCapped ==
    Len(workers) <= Min(maxWorkers, WorkerCap)

\* the handles of the tasks in the queue, waiting or in flight
QueuedHandles == {taskQueue[i].handle : i \in 1..Len(taskQueue)}

\* handle h is pending and no task, and no suspended call, will settle it
Discarded(h) ==
    /\ handles[h].status = "pending"
    /\ h \notin QueuedHandles
    /\ \A i \in 1..Len(deferred) : deferred[i].handle # h

\* C11: terminate() leaves no workers, no idle workers, no tasks and
\* isInitialized false; it settles no handle, and the handle of a task it
\* removed from the queue is never resolved or rejected afterwards.
C11_TerminateDiscards ==
    [][/\ Terminate =>
            /\ workers' = <<>>
            /\ availableWorkers' = <<>>
            /\ taskQueue' = <<>>
            /\ ~isInitialized'
            /\ handles' = handles
            /\ \A h \in QueuedHandles : Discarded(h)'
       /\ \A h \in 1..Len(handles) : Discarded(h) => Discarded(h)'
      ]_poolVars

\* C11 witness: a handle discarded by terminate() is still pending after the
\* pool was initialised again and resolved a later task.
C11_Witness ==
    /\ isInitialized
    /\ \E h, g \in 1..Len(handles) :
          h < g /\ Discarded(h) /\ handles[g].status = "resolved"

\* the payloads of batch operation b are contiguous slices of
\* ceil(N / maxWorkers) particles covering the caller's N particles once, one
\* task each, at most maxWorkers of them and none for N = 0
SlicedByWorkerCount(b) ==
    LET N == Len(callerParticles)
        batchSize == Ceil(N, maxWorkers)
        ps == batches[b].payloads
    IN  /\ Len(batches[b].slices) = Len(ps)
        /\ Len(ps) <= maxWorkers
        /\ N = 0 => Len(ps) = 0
        /\ Flat([i \in 1..Len(ps) |-> ps[i].particles]) = callerParticles
        /\ \A i \in 1..Len(ps) :
              IF i < Len(ps) THEN Len(ps[i].particles) = batchSize
              ELSE Len(ps[i].particles) \in 1..batchSize

\* C12 as stated: each of the three batch operations slices its input by
\* the worker count.
C12_AllThreeSliced ==
    \A b \in 1..Len(batches) : SlicedByWorkerCount(b)

\* C12: updateParticles and calculateForces slice their input by the worker
\* count; calculateSpatialHash dispatches one task carrying the whole input,
\* also when the input is empty.
C12_BatchesSliced ==
    \A b \in 1..Len(batches) :
        IF batches[b].kind = "spatialHash"
        THEN /\ Len(batches[b].slices) = 1
             /\ Len(batches[b].payloads) = 1
             /\ batches[b].payloads[1].particles = callerParticles
        ELSE SlicedByWorkerCount(b)

\* C12 witness: a sliced batch operation whose last slice is shorter than its first.
C12_Witness ==
    \E b \in 1..Len(batches) :
        /\ batches[b].kind \in {"updateParticles", "calculateForces"}
        /\ Len(batches[b].payloads) >= 2
        /\ Len(batches[b].payloads[Len(batches[b].payloads)].particles)
              < Len(batches[b].payloads[1].particles)

\* the ladder, lowest tier first
Ladder == <<"low", "medium", "high", "ultra">>

\* the position of a tier on the ladder
Rank(quality) == IndexOf(Ladder, quality)

\* one ladder step down, as far as the ladder goes
Lower(quality) == IF Rank(quality) > 1 THEN Ladder[Rank(quality) - 1] ELSE quality

\* one ladder step up, as far as the ladder goes
Higher(quality) == IF Rank(quality) < Len(Ladder) THEN Ladder[Rank(quality) + 1] ELSE quality

\* the ladder steps between two tiers
LadderSteps(a, b) == IF Rank(a) >= Rank(b) THEN Rank(a) - Rank(b) ELSE Rank(b) - Rank(a)

\* the settings s carry the fixed preset of tier `quality`
PresetInForce(quality, s) ==
    \A f \in DOMAIN tierSettings(quality) :
        f \in DOMAIN s /\ s[f] = tierSettings(quality)[f]

\* a sequence of n copies of x
Repeat(x, n) == [i \in 1..n |-> x]

\* C13: an adjustQuality call of the enabled controller that finds the window
\* average below 45 lowers the tier by exactly one ladder step (and leaves it
\* at low); no adjustQuality call moves the tier by more than one step.
C13_OneStepPerCall ==
    [][AdjustQualityCall =>
            /\ (adaptiveQuality /\ AverageBelowMin(performanceHistory'))
                  => currentQualityLevel' = Lower(currentQualityLevel)
            /\ LadderSteps(currentQualityLevel, currentQualityLevel') <= 1
      ]_vars

\* C13 witness: two samples above 120 took the tier to ultra; the seven
\* samples of 0 that followed brought the average below 45 at the fourth and
\* the tier from ultra to high, medium, low and low again.
C13_Witness ==
    /\ recorded = Repeat(Fps(130), 2) \o Repeat(Fps(0), 7)
    /\ currentQualityLevel = "low"

\* C14: an adjustQuality call of the enabled controller decides from the
\* average of the window alone: below 45 one step down (none at low), else
\* above 120 one step up (none at ultra), else no change; a call that keeps
\* the tier keeps the quality settings.
C14_DecidesFromAverage ==
    [][(adaptiveQuality /\ AdjustQualityCall) =>
            /\ currentQualityLevel' =
                  IF AverageBelowMin(performanceHistory') THEN Lower(currentQualityLevel)
                  ELSE IF AverageAboveMax(performanceHistory') THEN Higher(currentQualityLevel)
                  ELSE currentQualityLevel
            /\ currentQualityLevel' = currentQualityLevel => qualitySettings' = qualitySettings
      ]_vars

\* C14 witness: averages of exactly 45 and, at high, of exactly 120 left the
\* tier where it was.
C14_Witness ==
    \/ recorded = <<Fps(fpsMin)>> /\ currentQualityLevel = "medium"
          /\ performanceHistory = recorded
    \/ recorded = <<Fps(130), Fps(fpsMax), Fps(fpsMax - 10)>> /\ currentQualityLevel = "high"
          /\ performanceHistory = recorded

\* C15: the window never holds more than 60 samples: it holds the latest
\* min(k, 60) of the k samples recorded, in arrival order.
C15_WindowKeepsLatest ==
    /\ Len(performanceHistory) <= maxHistoryLength
    /\ performanceHistory =
          SubSeq(recorded, Len(recorded) - Min(Len(recorded), maxHistoryLength) + 1,
                 Len(recorded))

\* C15 witness: more samples than the window holds were recorded, and the
\* oldest, now dropped, differs from the oldest one kept.
C15_Witness ==
    /\ Len(recorded) > maxHistoryLength
    /\ recorded[1] # recorded[Len(recorded) - maxHistoryLength + 1]
    /\ Len(performanceHistory) = maxHistoryLength

\* C16: after a tier transition the simulation runs with the new tier's
\* particle count, its particle store resized to it.
C16_PresetReachesSimulation ==
    [][currentQualityLevel' # currentQualityLevel =>
          /\ fluidSim'.particleCount = tierSettings(currentQualityLevel').particles
          /\ fluidSim'.particles = tierSettings(currentQualityLevel').particles
      ]_vars

\* C17: a step that changes the tier dispatches exactly one qualityChanged
\* event, carrying the new tier and its preset; a step that keeps the tier
\* dispatches none.
C17_OneNotificationPerTransition ==
    [][IF currentQualityLevel' # currentQualityLevel
       THEN /\ Len(dispatched') = 1
            /\ dispatched'[1].type = "qualityChanged"
            /\ dispatched'[1].quality = currentQualityLevel'
            /\ PresetInForce(currentQualityLevel', dispatched'[1].settings)
       ELSE dispatched' = <<>>
      ]_vars

\* C17 witness: the latest step took the tier to ultra and dispatched an event.
C17_Witness ==
    /\ currentQualityLevel = "ultra"
    /\ dispatched # <<>>

\* C18: setQuality(T) leaves the controller at tier T with T's preset in force.
C18_DirectSelection ==
    [][\A quality \in QualityLevels :
          SetQuality(quality) =>
            /\ currentQualityLevel' = quality
            /\ PresetInForce(quality, qualitySettings')
      ]_vars

\* C19: the quality settings are the preset of the current tier, from
\* construction on (tier medium).
C19_SettingsMatchTier ==
    PresetInForce(currentQualityLevel, qualitySettings)

\* C20 as stated: a sample is pushed to the window only when no other sample
\* was pushed since the monitor last renewed its FPS value.
C20_OneSamplePerWindow ==
    [][Len(recorded') > Len(recorded) => sampledSinceRenewal = 0]_vars

\* C20: the monitor renews its FPS value only when a frame comes at least
\* 1000 ms after the last renewal; the controller gets one sample per
\* rendered frame while adaptive quality is enabled (none while it is
\* disabled), namely the monitor's FPS value before that frame is counted.
C20_OneSamplePerFrame ==
    [][\A d \in FrameTimes :
          Frame(d) =>
            /\ recorded' = IF adaptiveQuality
                           THEN Append(recorded, performanceMonitor.fps)
                           ELSE recorded
            /\ (performanceMonitor'.fps # performanceMonitor.fps
                \/ performanceMonitor'.lastTime # performanceMonitor.lastTime)
                  => now' - performanceMonitor.lastTime >= FpsWindowMs
      ]_vars

\* C20 witness: two frames in a row handed the controller the same FPS value,
\* measured over an earlier window.
C20_Witness ==
    /\ Len(recorded) >= 3
    /\ recorded[2] = recorded[3]
    /\ recorded[2] # 0

\* the count the store was built for by the latest call, a construction or a
\* setParticleCount
BuiltFor ==
    IF lastCall.name = "setParticleCount" THEN lastCall.count
    ELSE simulation.params.particleCount

\* the store holds n particles and each buffer has 2n cells
SizedFor(sim, n) ==
    /\ Len(sim.particles) = n
    /\ Len(sim.positions) = 2 * n
    /\ Len(sim.velocities) = 2 * n
    /\ Len(sim.forces) = 2 * n

C22_PositionsEqualParticles ==
    \A i \in 1..Len(simulation.particles) :
        /\ simulation.positions[2 * i - 1] = simulation.particles[i].x
        /\ simulation.positions[2 * i] = simulation.particles[i].y

\* C22, amended: after every completed call positions[2i], positions[2i+1] are
\* particles[i].x, particles[i].y rounded to single precision.
C22_PositionsMirrorParticles ==
    /\ Len(simulation.positions) = 2 * Len(simulation.particles)
    /\ \A i \in 1..Len(simulation.particles) :
          /\ simulation.positions[2 * i - 1] = Fround(simulation.particles[i].x)
          /\ simulation.positions[2 * i] = Fround(simulation.particles[i].y)

\* an update has moved a particle to a place that is not a single-precision number
C22_Witness ==
    /\ lastCall.name = "update"
    /\ \E i \in 1..Len(simulation.particles) :
          /\ simulation.particles[i].y # previous.particles[i].y
          /\ simulation.positions[2 * i] # simulation.particles[i].y

\* floor(width / 10) * floor(height / 10), the cells of a coarse grid
GridCells(width, height) == (width \div Num(10)) * (height \div Num(10))

\* C23: resize(width, height) changes the stored dimensions and gives both
\* coarse grids floor(width/10) * floor(height/10) cells; the particles, their
\* count, positions, velocities and everything else stay as they were.
C23_ResizeKeepsParticles ==
    lastCall.name = "resize" =>
        simulation = [previous EXCEPT
                         !.width = lastCall.width,
                         !.height = lastCall.height,
                         !.velocityField = GridCells(lastCall.width, lastCall.height),
                         !.pressureField = GridCells(lastCall.width, lastCall.height)]

\* a resize has shrunk the canvas below particles that had been moved
C23_Witness ==
    /\ lastCall.name = "resize"
    /\ simulation.velocityField = 15
    /\ previous.velocityField = 100
    /\ previous.spatialHash # EmptyMap
    /\ \E i \in 1..Len(simulation.particles) :
          simulation.particles[i].y > simulation.height

\* the latest call was an update given an empty array of levels
EmptyLevelsUpdate == lastCall.name = "update" /\ lastCall.audioData = Levels(<<>>)

\* C24: update() with an empty audioLevels array leaves audioInfluence at its
\* previous value, a number from 0 to 1.
C24_EmptyLevelsIgnored ==
    EmptyLevelsUpdate =>
        /\ simulation.audioInfluence = previous.audioInfluence
        /\ simulation.audioInfluence # NaN
        /\ simulation.audioInfluence >= 0
        /\ simulation.audioInfluence <= Num(1)

\* particle i of the latest update as it was before boundary handling: moved
\* by the integration but not yet held by the walls
Moved(i) ==
    integrate(heard(previous, lastCall.audioData), i, stepOf(lastCall.deltaTime)).particles[i]

\* a coordinate and its velocity component after boundary handling, for the
\* coordinate `at` and the component `speed` before it and the wall `wall`
Reflected(at, speed, wall, atAfter, speedAfter) ==
    IF at = NaN THEN TRUE
    ELSE IF at < 0 THEN atAfter = 0 /\ speedAfter = Neg(Mul(speed, Frac(8, 10)))
    ELSE IF at > wall THEN atAfter = wall /\ speedAfter = Neg(Mul(speed, Frac(8, 10)))
    ELSE atAfter = at /\ speedAfter = speed

ExactRoot(square, root, a, b) ==
    /\ Mul(root, root) = square
    /\ Mul(Div(a, root), root) = a
    /\ Mul(Div(b, root), root) = b

\* a and b do not point to opposite sides
SameSide(a, b) == (a >= 0 /\ b >= 0) \/ (a <= 0 /\ b <= 0)

\* the change of velocity of a particle by addForce(x, y, strength), for the
\* particle `was` before the call and `is` after it: none at the point itself
\* and at a distance of 50 or more; closer, a change along the line from
\* (x, y) to the particle, away from (x, y), of size (50 - d) / 50 *
\* strength * 100 wherever the distance d is exact
PushedAsClaimed(was, is, x, y, strength) ==
    LET dx == Sub(was.x, x)
        dy == Sub(was.y, y)
        square == Add(Mul(dx, dx), Mul(dy, dy))
        d == Sqrt(square)
        size == Mul(Mul(Sub(Num(50), d), strength), Num(2))
        dvx == Sub(is.vx, was.vx)
        dvy == Sub(is.vy, was.vy)
    IN  IF square = NaN \/ square = 0 \/ square >= Num(2500)
        THEN is.vx = was.vx /\ is.vy = was.vy
        ELSE /\ dvx # NaN /\ dvy # NaN
             /\ SameSide(dvx, dx) /\ SameSide(dvy, dy)
             /\ ExactRoot(square, d, dx, dy) =>
                   /\ Mul(d, dvx) = Mul(size, dx)
                   /\ Mul(d, dvy) = Mul(size, dy)
                   /\ Add(Mul(dvx, dvx), Mul(dvy, dvy)) = Mul(size, size)

\* C26: addForce(x, y, strength) leaves the velocity of every particle at
\* distance >= 50 from (x, y) or exactly at (x, y) unchanged, gives every
\* particle at distance d with 0 < d < 50 a velocity change of magnitude
\* (50 - d) / 50 * strength * 100 directed from (x, y) towards the particle,
\* changes no position and divides by no zero.
C26_ImpulseWithinRadius ==
    lastCall.name = "addForce" =>
        /\ Len(simulation.particles) = Len(previous.particles)
        /\ \A i \in 1..Len(simulation.particles) :
              /\ simulation.particles[i].x = previous.particles[i].x
              /\ simulation.particles[i].y = previous.particles[i].y
              /\ PushedAsClaimed(previous.particles[i], simulation.particles[i],
                                 lastCall.x, lastCall.y, lastCall.strength)

\* an addForce has pushed a particle at an exact distance inside the radius
\* while another particle sat exactly at the point of the force
C26_Witness ==
    /\ lastCall.name = "addForce"
    /\ \E i \in 1..Len(simulation.particles) :
          /\ previous.particles[i].x = lastCall.x + Num(9)
          /\ previous.particles[i].y = lastCall.y + Num(12)
          /\ simulation.particles[i].vx = previous.particles[i].vx + Num(42)
          /\ simulation.particles[i].vy = previous.particles[i].vy + Num(56)
    /\ \E i \in 1..Len(simulation.particles) :
          /\ previous.particles[i].x = lastCall.x
          /\ previous.particles[i].y = lastCall.y

\* the index stored at place k of cell `key` is stored nowhere else
StoredOnce(sim, key, k) ==
    \A other \in DOMAIN sim.spatialHash :
        \A j \in 1..Len(sim.spatialHash[other]) :
            sim.spatialHash[other][j] = sim.spatialHash[key][k] => other = key /\ j = k

\* C27: between calls every index stored in the spatial hash is the index of
\* an existing particle, stored under the cell (floor(x/20), floor(y/20)) of
\* that particle's current position, and no index is stored twice.
C27_HashNeverStale ==
    \A key \in DOMAIN simulation.spatialHash :
        \A k \in 1..Len(simulation.spatialHash[key]) :
            /\ simulation.spatialHash[key][k] \in 1..Len(simulation.particles)
            /\ key = CellOf(simulation.particles[simulation.spatialHash[key][k]])
            /\ StoredOnce(simulation, key, k)

\* the step the latest update has to integrate with: deltaTime / 1000 s,
\* and 0.016 s for a deltaTime above 16 ms
ClaimedStep ==
    IF lastCall.deltaTime > Num(16) THEN 16 * (Unit \div 1000)
    ELSE lastCall.deltaTime \div 1000

\* C28: update(deltaTime) integrates every particle with the step
\* min(deltaTime / 1000, 0.016): exactly 0.016 s for every deltaTime above 16 ms.
C28_StepCapped ==
    lastCall.name = "update" =>
        LET start == heard(previous, lastCall.audioData)
        IN  /\ Len(simulation.particles) = Len(previous.particles)
            /\ \A i \in 1..Len(simulation.particles) :
                  simulation.particles[i] =
                      handleBoundaries(start, integrate(start, i, ClaimedStep).particles[i])

\* an update called with a deltaTime above 16 ms has moved a particle
C28_Witness ==
    /\ lastCall.name = "update"
    /\ lastCall.deltaTime > Num(16)
    /\ \E i \in 1..Len(simulation.particles) :
          /\ simulation.particles[i].x # NaN
          /\ simulation.particles[i].x # previous.particles[i].x
          /\ simulation.particles[i].x > 0
          /\ simulation.particles[i].x < simulation.width

\* the latest call was an update in the vortex scene with audioInfluence 0
QuietVortexUpdate ==
    /\ lastCall.name = "update"
    /\ previous.currentScene = "vortex"
    /\ simulation.audioInfluence = 0

\* C29 as stated: in the vortex scene with audioInfluence 0,
\* applyParticleForces stores forces[2i] = forces[2i+1] = 0 for every
\* particle, whatever its position and velocity.
C29_QuietVortexStoresZero ==
    QuietVortexUpdate =>
        \A i \in 1..Len(simulation.particles) :
            simulation.forces[2 * i - 1] = 0 /\ simulation.forces[2 * i] = 0

\* C29, amended: in the vortex scene with audioInfluence 0 the scene adds
\* nothing, and applyParticleForces stores the viscosity drag alone:
\* forces[2i], forces[2i+1] are -vx * viscosity, -vy * viscosity of the
\* particle, in single precision.
C29_QuietVortexStoresDrag ==
    QuietVortexUpdate =>
        /\ Len(simulation.forces) = 2 * Len(previous.particles)
        /\ \A i \in 1..Len(previous.particles) :
              /\ simulation.forces[2 * i - 1] =
                    Fround(Neg(Mul(previous.particles[i].vx, previous.params.viscosity)))
              /\ simulation.forces[2 * i] =
                    Fround(Neg(Mul(previous.particles[i].vy, previous.params.viscosity)))

\* an update in the quiet vortex has stored a force that is not zero for a
\* moving particle off the centre
C29_Witness ==
    /\ QuietVortexUpdate
    /\ \E i \in 1..Len(simulation.particles) :
          /\ simulation.forces[2 * i - 1] # 0
          /\ previous.particles[i].x # previous.width \div 2

\* the force (fx, fy) is what the vortex has to exert on a particle at (dx, dy)
\* from the centre, at the exact distance d > 0, for audioInfluence a: at right
\* angles to the radius, to either side, of magnitude 100 / (d + 1) * a
TangentialAsClaimed(fx, fy, dx, dy, d, a) ==
    LET size == Mul(Div(Num(100), Add(d, Num(1))), a)
    IN  \/ Mul(d, fx) = Mul(size, Neg(dy)) /\ Mul(d, fy) = Mul(size, dx)
        \/ Mul(d, fx) = Mul(size, dy) /\ Mul(d, fy) = Mul(size, Neg(dx))

\* C30: in the vortex scene the scene force on a particle at distance d > 0
\* from the canvas centre is perpendicular to the radius vector and has
\* magnitude 100 / (d + 1) * audioInfluence; a particle exactly at the centre
\* receives no scene force.  Checked where the distance and the quotient
\* 100 / (d + 1) have no rounding.
C30_VortexTangential ==
    (lastCall.name = "update" /\ previous.currentScene = "vortex"
     /\ simulation.audioInfluence # NaN) =>
        \A i \in 1..Len(previous.particles) :
            LET start == heard(previous, lastCall.audioData)
                force == sceneForce(start, previous.particles[i])
                dx == Sub(previous.particles[i].x, previous.width \div 2)
                dy == Sub(previous.particles[i].y, previous.height \div 2)
                square == Add(Mul(dx, dx), Mul(dy, dy))
                d == Sqrt(square)
            IN  IF square = NaN THEN TRUE
                ELSE IF square = 0 THEN force.fx = 0 /\ force.fy = 0
                ELSE (/\ ExactRoot(square, d, dx, dy)
                      /\ Mul(Div(Num(100), Add(d, Num(1))), Add(d, Num(1))) = Num(100)) =>
                        TangentialAsClaimed(force.fx, force.fy, dx, dy, d, start.audioInfluence)

(***************************************************************************)
(* The render loop.                                                        *)
(***************************************************************************)
\* a step of one of the listeners of the page
ListenerRuns == Interaction \/ HandleResize \/ QualitySelected

\* C31: frames do not interleave. Once update has run in a pass, the next
\* step of the program is the render of the same frame, on the simulation as
\* update left it, and the step after it the recordFrame that ends the pass;
\* a listener (addForce, resize, quality selection) and the next update run
\* only between two passes, at a frame boundary.
C31_FramesDoNotInterleave ==
    [][/\ renderLoop.position = "updated"
            => renderLoop'.position = "rendered" /\ simulation' = simulation
       /\ renderLoop.position = "rendered"
            => renderLoop'.position = "returned" /\ simulation' = simulation
       /\ ListenerRuns
            => renderLoop.position = "returned" /\ renderLoop'.position = "returned"
       /\ renderLoop'.position = "updated" => renderLoop.position = "returned"]_vars

\* a frame is being rendered whose update ran after a listener did: two calls
\* of the simulation have completed and no frame has been recorded yet
C31_Witness ==
    /\ renderLoop.position = "rendered"
    /\ lastCall.name = "update"
    /\ completed >= 2
    /\ performanceMonitor.frameTimes = <<>>

(***************************************************************************)
(* Progress of the pool.                                                   *)
(***************************************************************************)
\* a task is queued without a worker while a worker is idle
IdleBesideQueued(queue, idle) ==
    idle # <<>> /\ \E i \in 1..Len(queue) : queue[i].worker = 0

\* C32: every task accepted by executeTask is eventually dispatched, given
\* that terminate() is not called and that the workers respond: a worker that
\* becomes idle, by a reply or by an error, takes the oldest task that waits
\* in the queue in the same handler, so that no further executeTask call is
\* needed: after the handler no task waits beside an idle worker.
C32_IdleWorkerTakesQueuedTask ==
    [][WorkerResponds => ~IdleBesideQueued(taskQueue', availableWorkers')]_poolVars

(***************************************************************************)
(* The worker script against the simulation.                               *)
(***************************************************************************)
\* the cells FluidSimulation.applyParticleForces stores for particle i of sim
LocalForce(sim, i) ==
    [fx |-> Cell(applyParticleForces(sim, sim.particles[i], i, MaxStep).forces, 2 * i - 1),
     fy |-> Cell(applyParticleForces(sim, sim.particles[i], i, MaxStep).forces, 2 * i)]

\* C33: computing forces through the pool is equivalent to computing them
\* locally: for every particle of the simulation, the force the worker script
\* returns for it, given the scene, the audio influence and the canvas of the
\* simulation, is the force applyParticleForces stores for it, viscosity drag
\* included.
C33_PoolForcesEqualLocal ==
    \A i \in 1..Len(simulation.particles) :
        workerForce(simulation.particles[i], simulation.currentScene,
                    simulation.audioInfluence, simulation.width, simulation.height)
            = LocalForce(simulation, i)

\* the particle the local loop of updateParticleBatch leaves for particle i
\* of sim after a step of dt
LocalStep(sim, i, dt) == boundParticle(integrate(sim, i, dt), i).particles[i]

\* the particle the worker script returns for it, given the forces the local
\* loop integrates with
PoolStep(sim, i, dt) ==
    workerStep(sim.particles[i], LocalForce(sim, i).fx, LocalForce(sim, i).fy, dt, sim.params)

InsideBox(sim, particle) ==
    /\ particle.x # NaN /\ 0 <= particle.x /\ particle.x <= sim.width
    /\ particle.y # NaN /\ 0 <= particle.y /\ particle.y <= sim.height

\* C34: integrating particles through the pool is equivalent to integrating
\* them locally: given the same particle, forces, dt and speed, the worker
\* script returns the position and velocity the local step of
\* updateParticleBatch leaves, walls included, so that the returned particle
\* lies inside the canvas box.
C34_PoolStepEqualsLocal ==
    \A i \in 1..Len(simulation.particles) :
        /\ PoolStep(simulation, i, MaxStep) = LocalStep(simulation, i, MaxStep)
        /\ InsideBox(simulation, PoolStep(simulation, i, MaxStep))

(***************************************************************************)
(* Order and bookkeeping of the pool.                                      *)
(***************************************************************************)
\* C35: tasks enter the queue in the order in which executeTask was called,
\* also when the first call initialises the pool lazily: the promises are
\* numbered in call order, and the tasks in the queue carry increasing numbers.
C35_QueueInCallOrder ==
    \A i, j \in 1..Len(taskQueue) :
        i < j => taskQueue[i].handle < taskQueue[j].handle

\* the workers a pending task is assigned to
BusyWorkers == {taskQueue[i].worker : i \in 1..Len(taskQueue)} \ {0}

\* C36: the idle set is consistent with the queue. availableWorkers has no
\* duplicates and holds only workers of the pool, a worker is in it exactly
\* when no pending task is assigned to it, and so the idle workers and the
\* workers with a task in flight add up to the workers.
C36_IdleSetConsistent ==
    /\ \A i, j \in 1..Len(availableWorkers) : availableWorkers[i] = availableWorkers[j] => i = j
    /\ Range(availableWorkers) \subseteq Range(workers)
    /\ \A w \in Range(workers) : w \in Range(availableWorkers) <=> w \notin BusyWorkers
    /\ Len(availableWorkers) + Cardinality(BusyWorkers) = Len(workers)

(***************************************************************************)
(* The simulation after update and between calls.                          *)
(***************************************************************************)
\* C37: after every completed update, whatever calls came before it, every
\* particle lies inside the closed canvas box, 0 <= x <= width and
\* 0 <= y <= height, and has been integrated exactly once by that update: it
\* is the particle one local step makes of the particle before the call, and
\* no particle was added or dropped.
C37_UpdateKeepsParticlesInside ==
    lastCall.name = "update" =>
        /\ Len(simulation.particles) = Len(previous.particles)
        /\ \A i \in 1..Len(simulation.particles) :
              /\ InsideBox(simulation, simulation.particles[i])
              /\ simulation.particles[i] =
                    LocalStep(heard(previous, lastCall.audioData), i, stepOf(lastCall.deltaTime))

\* C38: after every completed operation of the simulation (construction,
\* update, addForce, setParticleCount, resize) the velocities buffer mirrors
\* the particles: velocities[2i] and velocities[2i+1] are particles[i].vx and
\* particles[i].vy, as the float32 values a Float32Array cell holds of them.
C38_VelocitiesMirrorParticles ==
    \A i \in 1..Len(simulation.particles) :
        /\ Cell(simulation.velocities, 2 * i - 1) = Fround(simulation.particles[i].vx)
        /\ Cell(simulation.velocities, 2 * i) = Fround(simulation.particles[i].vy)

(***************************************************************************)
(* The monitor and the controller in the frame loop.                       *)
(***************************************************************************)
\* a frame is rendered after some frame time
FrameRendered == \E d \in FrameTimes : Frame(d)

\* C39: the adaptive controller lowers the tier only on measured low
\* performance, also during the first second after startup: a frame lowers
\* the tier only if some FPS value handed to the controller was measured over
\* a completed one-second window (a measured value counts at least one frame
\* and is above 0) and is below 45.
C39_LowersOnlyOnMeasuredLow ==
    [][FrameRendered /\ Rank(currentQualityLevel') < Rank(currentQualityLevel)
          => \E i \in 1..Len(recorded') :
                recorded'[i] > 0 /\ recorded'[i] < Fps(fpsMin)]_vars

\* a stopped monitor ignores recordFrame
StoppedIgnores(mon, currentTime) ==
    recordFrame([mon EXCEPT !.isRunning = FALSE], currentTime) = [mon EXCEPT !.isRunning = FALSE]

\* C40: while the monitor is running, the frame time recordFrame(t) records
\* and appends to the frame-time history is the time elapsed since the
\* previous recordFrame call; while it is stopped, recordFrame changes nothing.
C40_FrameTimeSincePreviousFrame ==
    [][FrameRendered =>
          /\ performanceMonitor'.frameTime = now' - now
          /\ performanceMonitor'.frameTimes[Len(performanceMonitor'.frameTimes)] = now' - now
          /\ StoppedIgnores(performanceMonitor, now')]_vars

====
